---- MODULE Spec2Model ----
(***************************************************************************)
(* Position lifecycle of the tradex trading loop (src/src/core/script.py), *)
(* in live trading (Config.PAPER_TRADING off: orders can fail, the broker  *)
(* account is read).  Prices are whole rupees; every stop/target level is  *)
(* kept multiplied by 100 so that the percentage arithmetic is exact.      *)
(***************************************************************************)
EXTENDS Integers, Sequences, FiniteSets, TLC

(* ------------------------------ bounds -------------------------------- *)
\* largest quantity the sizer or the broker account reports
MaxQty == 2
\* number of price steps below the highest price
MaxPriceSteps == 2

\* prices a cycle or the broker can report: the target of an entry at 100
\* and the steps below it
Prices == {108 - 4 * i : i \in 0..MaxPriceSteps}
\* price at which entries are observed, and the account's average prices
EntryPrices == {100}
Quantities == 1..MaxQty
\* quantities the broker account reports for a holding
AccountQuantities == {1}
\* ATR readings of the indicator snapshot (0: indicator missing)
ATRs == {0, 1, 4}

(* --------------------------- configuration ---------------------------- *)
\* percentages, in percent
SL_PCT == 5
TARGET_PCT == 8
TRAILING_SL_PCT == 3
\* Config.MAX_POSITION_PCT, in percent
CAPITAL == 1000
RSI_OVERBOUGHT == 70
RSI_OVERBOUGHT_V2_STRONG_BULLISH == 80
RSI_OVERBOUGHT_V2_BULLISH == 75
VOLUME_MULTIPLIER == 1
MAX_POSITION_PCT == 50
RSI_OVERSOLD == 35
MAX_POSITIONS == 2

SYMBOLS == <<"GOLDBEES-EQ", "SILVERBEES-EQ">>
\* a symbol held in the account (or in the position file) but not configured
UntrackedSymbols == <<"TATASTEEL-EQ">>
AllSymbols == SYMBOLS \o UntrackedSymbols
tracked_symbols == {SYMBOLS[i] : i \in 1..Len(SYMBOLS)}
SymbolSet == {AllSymbols[i] : i \in 1..Len(AllSymbols)}

Signals == {"STRONG_BUY", "BUY", "SELL", "HOLD", "WAIT"}
\* signals observed while a position is held: the loop tells SELL from the
\* rest, which it reads as it reads HOLD
HeldSignals == {"SELL", "HOLD"}

VARIABLES
    positions,      \* symbol -> position record (the dict of main)
    pc,             \* place of the loop
    idx,            \* index of the symbol being processed
    TEST_MODE,      \* Config.TEST_MODE
    last,           \* what the last step read, decided and ordered
    trade_file,     \* rows of the trade log (trades.csv), oldest first
    insights,       \* LearningEngine.insights
    probe,          \* the last call into the sizer or the learning engine
    ledger,         \* the trades the loop executed, as the loop knows them
    account         \* the clock and the locals of main that last across cycles

\* state of the sizer and the learning engine, and the loop's accounting; the
\* specification of the position map leaves it alone, the other
\* specifications drive it
analytics == <<trade_file, insights, probe, ledger, account>>

\* state of the loop
loop == <<positions, pc, idx, TEST_MODE, last>>

vars == <<positions, pc, idx, TEST_MODE, last, analytics>>

Max(a, b) == IF a >= b THEN a ELSE b

\* `position = positions.get(symbol)` when the symbol is flat
None == [quantity |-> 0, buy_price |-> 0, highest_price |-> 0,
         bot_entered |-> FALSE, partial_exit_done |-> FALSE]

Get(symbol) == IF symbol \in DOMAIN positions THEN positions[symbol] ELSE None

NoStep == [op |-> "start", symbol |-> "-", position |-> None, price |-> 0,
           raw |-> "-", signal |-> "-", should_trade |-> FALSE,
           ml_take_trade |-> FALSE, exit_reason |-> "NONE", effective_sl |-> 0,
           order |-> "NONE", quantity |-> 0, order_result |-> FALSE,
           requantified |-> {}]

(* ---------------------- fractions (Python floats) --------------------- *)
\* the sizer and the learning engine compute with floats; the model keeps
\* the exact quotient as a reduced pair <<numerator, denominator>>
Abs(a) == IF a < 0 THEN -a ELSE a

RECURSIVE GCD(_, _)
GCD(a, b) == IF b = 0 THEN a ELSE GCD(b, a % b)

Frac(n, d) ==
    LET g == GCD(Abs(n), Abs(d))
        sign == IF d < 0 THEN -1 ELSE 1
    IN IF n = 0 THEN <<0, 1>> ELSE <<sign * (n \div g), sign * (d \div g)>>

Whole(n) == <<n, 1>>
FAdd(x, y) == Frac(x[1] * y[2] + y[1] * x[2], x[2] * y[2])
FSub(x, y) == Frac(x[1] * y[2] - y[1] * x[2], x[2] * y[2])
FMul(x, y) == Frac(x[1] * y[1], x[2] * y[2])
\* defined for y # 0 only: Python raises ZeroDivisionError otherwise
FDiv(x, y) == Frac(x[1] * y[2], x[2] * y[1])
FLe(x, y) == x[1] * y[2] <= y[1] * x[2]
FLt(x, y) == x[1] * y[2] < y[1] * x[2]
FMin(x, y) == IF FLe(x, y) THEN x ELSE y
FMax(x, y) == IF FLe(x, y) THEN y ELSE x

(* ------------------------------ trade log ----------------------------- *)
\* one row of trades.csv as csv.DictReader returns it: pnl, rsi and hour are
\* what float() and datetime.fromisoformat() read back from the cells (an
\* empty pnl or rsi cell reads as 0)
Row(action, symbol, signal_type, reason, pnl, rsi, hour) ==
    [action |-> action, symbol |-> symbol, signal_type |-> signal_type,
     reason |-> reason, pnl |-> pnl, rsi |-> rsi, hour |-> hour]

(* ------------------------- learning engine state ---------------------- *)
SignalTypes == {"STRONG_BUY", "BUY", "BOUNCE_BUY"}
ExitKeys == {"Target Hit", "Stop Loss", "Trailing SL", "Trend Reversal"}

\* the insights of a first run, without a learning_data.json; sl_pct is kept
\* in tenths of a percent
load_insights ==
    [total_trades_analyzed |-> 0,
     adjustments |-> [rsi_oversold |-> RSI_OVERSOLD, sl_pct |-> 10 * SL_PCT],
     signal_performance |->
        [t \in SignalTypes |-> [wins |-> 0, losses |-> 0, total_pnl |-> 0]],
     exit_performance |->
        [k \in ExitKeys |-> [count |-> 0, avg_pnl |-> Whole(0)]],
     rsi_analysis |-> [winning_rsi_avg |-> Whole(0), losing_rsi_avg |-> Whole(0),
                       best_rsi_range |-> <<30, 40>>],
     time_analysis |-> [best_hours |-> <<>>, worst_hours |-> <<>>],
     symbol_performance |-> <<>>]

\* get_trade_statistics() returning None
NoStats ==
    [present |-> FALSE, total_trades |-> 0, wins |-> 0, losses |-> 0,
     win_rate |-> Whole(0), avg_win |-> Whole(0), avg_loss |-> Whole(0),
     payoff_ratio |-> Whole(0)]

\* no call yet
NoProbe ==
    [op |-> "none", symbol |-> "-", stats |-> NoStats, raised |-> FALSE,
     fraction |-> Whole(0), capital |-> 0, price |-> 1, confidence |-> Whole(0),
     quantity |-> 0, signal_type |-> "", rsi |-> 0, hour |-> 0,
     learn_confidence |-> Whole(0), ml_confidence |-> Whole(0),
     should_trade |-> FALSE, args |-> <<>>, result |-> <<>>]

\* exit reasons of the loop
LoopReasons == {"STOP LOSS", "TRAILING SL", "TARGET HIT",
                "PARTIAL TARGET (50%)", "TREND REVERSAL"}

\* nothing traded yet: no open position (open_signal ""), no closed trade
NoLedger ==
    [open_signal |-> "",
     closed |-> [t \in SignalTypes |-> [wins |-> 0, losses |-> 0]],
     exits |-> [r \in LoopReasons |-> 0],
     restarts |-> 0]

\* what the cycle under way has done so far: nothing
NoCycle ==
    [market_open |-> FALSE, paused |-> FALSE, waiting |-> FALSE,
     open_at_start |-> {}, visited |-> {}, raised |-> {}, evaluated |-> {},
     orders |-> 0]

\* main before its first cycle: total_pnl = 0, daily_pnl = 0,
\* last_daily_summary = None (no summary sent on the current date); the
\* clock stands before the opening
NoAccount ==
    [phase |-> "pre", ticked |-> FALSE, summary_today |-> FALSE,
     total_pnl |-> 0, daily_pnl |-> 0, entries |-> 0, exits |-> 0,
     cycle |-> NoCycle]

(* ------------------------- broker position sync ----------------------- *)
\* one record of BrokerClient.sync_all_positions()
normalize_broker_position(quantity, avg_price, ltp) ==
    [quantity |-> quantity, buy_price |-> avg_price, current_price |-> ltp,
     highest_price |-> Max(ltp, avg_price), bot_entered |-> FALSE]

\* the dictionaries sync_all_positions() can return in live trading (paper
\* trading fetches nothing and returns the empty one)
BrokerReports ==
    {[s \in held |-> normalize_broker_position(q, avg, ltp)] :
        held \in SUBSET SymbolSet, q \in AccountQuantities,
        avg \in EntryPrices, ltp \in Prices}

\* `positions[symbol] = broker_pos`: the fields of the adopted record that the
\* loop reads afterwards
Adopt(broker_pos) ==
    [quantity |-> broker_pos.quantity, buy_price |-> broker_pos.buy_price,
     highest_price |-> broker_pos.highest_price,
     bot_entered |-> broker_pos.bot_entered, partial_exit_done |-> FALSE]

\* RaiseHighest with the comparison dropped: the high follows the price
RaiseHighest_follow(position, current_price) ==
    [position EXCEPT !.highest_price = current_price]

\* highest_price raised to a higher current price
RaiseHighest(position, current_price) ==
    IF current_price > position.highest_price
    THEN [position EXCEPT !.highest_price = current_price]
    ELSE position

\* a position already tracked, refreshed from the broker's record at start-up
StartupRefresh(position, broker_pos) ==
    RaiseHighest(position, broker_pos.current_price)

\* a position already tracked, refreshed by the periodic sync
SyncRefresh(position, broker_pos) ==
    LET p == RaiseHighest(position, broker_pos.current_price)
    IN IF broker_pos.quantity # p.quantity
       THEN [p EXCEPT !.quantity = broker_pos.quantity]
       ELSE p

\* positions_to_remove dropping every position gone from the account
positions_to_remove_any(broker_symbols) ==
    {s \in DOMAIN positions : s \notin broker_symbols}

\* symbols the periodic sync drops: external positions gone from the account
positions_to_remove(broker_symbols) ==
    {s \in DOMAIN positions : s \notin broker_symbols /\ ~positions[s].bot_entered}

(* ------------------------------ start-up ------------------------------ *)
Init ==
    /\ positions = <<>>
    /\ pc = "load"
    /\ idx = 1
    /\ TEST_MODE \in BOOLEAN
    /\ last = NoStep
    /\ trade_file = <<>>
    /\ insights = load_insights
    /\ probe = NoProbe
    /\ ledger = NoLedger
    /\ account = NoAccount

\* logger.load_positions(): the file a previous run saved
LoadPositions ==
    /\ pc = "load"
    /\ \E held \in SUBSET SymbolSet, q \in Quantities, p \in EntryPrices :
         \E bots \in SUBSET held :
            /\ Cardinality(bots) <= MAX_POSITIONS
            /\ positions' = [s \in held |->
                   [quantity |-> q, buy_price |-> p, highest_price |-> p,
                    bot_entered |-> s \in bots, partial_exit_done |-> FALSE]]
    /\ pc' = "startsync"
    /\ last' = [NoStep EXCEPT !.op = "load"]
    /\ UNCHANGED <<idx, TEST_MODE, analytics>>

\* the sync before the loop: adopts what the account holds, removes nothing
StartupSync ==
    /\ pc = "startsync"
    /\ \E broker_positions \in BrokerReports :
         positions' = [s \in DOMAIN positions \cup DOMAIN broker_positions |->
            IF s \in DOMAIN positions
            THEN IF s \in DOMAIN broker_positions
                 THEN StartupRefresh(positions[s], broker_positions[s])
                 ELSE positions[s]
            ELSE Adopt(broker_positions[s])]
    /\ pc' = "sync"
    /\ last' = [NoStep EXCEPT !.op = "startsync"]
    /\ UNCHANGED <<idx, TEST_MODE, analytics>>

\* sync_all_positions() returned None (rate limited): the loop over it raises
\* and the handler only logs
StartupSyncFailed ==
    /\ pc = "startsync"
    /\ pc' = "sync"
    /\ last' = [NoStep EXCEPT !.op = "startsync_failed"]
    /\ UNCHANGED <<positions, idx, TEST_MODE, analytics>>

(* --------------------------- the loop: sync --------------------------- *)
SyncPositions ==
    /\ pc = "sync"
    /\ \E broker_positions \in BrokerReports :
         LET broker_symbols == DOMAIN broker_positions
             kept == (DOMAIN positions \cup broker_symbols)
                        \ positions_to_remove(broker_symbols)
         IN positions' = [s \in kept |->
              IF s \in DOMAIN positions
              THEN IF s \in broker_symbols
                   THEN SyncRefresh(positions[s], broker_positions[s])
                   ELSE positions[s]
              ELSE Adopt(broker_positions[s])]
    /\ pc' = "market"
    /\ last' = [NoStep EXCEPT !.op = "sync",
                  !.requantified = {s \in DOMAIN positions \cap DOMAIN positions' :
                       positions'[s].quantity # positions[s].quantity}]
    /\ UNCHANGED <<idx, TEST_MODE, analytics>>

\* no sync this cycle: POSITION_SYNC_INTERVAL has not passed since the last
\* one, or sync_all_positions() returned None and the handler only logged
SyncSkipped ==
    /\ pc = "sync"
    /\ pc' = "market"
    /\ last' = [NoStep EXCEPT !.op = "sync_skipped"]
    /\ UNCHANGED <<positions, idx, TEST_MODE, analytics>>

(* ----------------------- the loop: market hours ----------------------- *)
MarketClosed ==
    /\ pc = "market"
    /\ pc' = "sync"
    /\ last' = [NoStep EXCEPT !.op = "market_closed"]
    /\ UNCHANGED <<positions, idx, TEST_MODE, analytics>>

MarketOpen ==
    /\ pc = "market"
    /\ pc' = "symbols"
    /\ idx' = 1
    /\ last' = [NoStep EXCEPT !.op = "market_open"]
    /\ UNCHANGED <<positions, TEST_MODE, analytics>>

(* ------------------------- exit rule evaluation ----------------------- *)
\* stop and target levels, times 100
fixed_sl(buy_price) == buy_price * (100 - SL_PCT)
trailing_sl(highest_price) == highest_price * (100 - TRAILING_SL_PCT)
target(buy_price) == buy_price * (100 + TARGET_PCT)
partial_target(buy_price) == buy_price * 100 + (buy_price * TARGET_PCT) \div 2

\* effective_sl with the ATR stop assigned instead of max'ed in
effective_sl_atr_replaces(buy_price, highest_price, atr_value) ==
    IF atr_value > 0
    THEN (highest_price - atr_value * 2) * 100
    ELSE Max(fixed_sl(buy_price), trailing_sl(highest_price))

\* max(fixed, trailing), then the ATR stop (2 x ATR below the high) if tighter
effective_sl(buy_price, highest_price, atr_value) ==
    LET pct_sl == Max(fixed_sl(buy_price), trailing_sl(highest_price))
    IN IF atr_value > 0
       THEN Max(pct_sl, (highest_price - atr_value * 2) * 100)
       ELSE pct_sl

stop_reason(buy_price, highest_price) ==
    IF trailing_sl(highest_price) > fixed_sl(buy_price)
    THEN "TRAILING SL" ELSE "STOP LOSS"

\* exit_reason with the profit rules tested before the stop
exit_reason_profit_first(position, current_price, atr_value, signal) ==
    IF current_price * 100 >= target(position.buy_price)
    THEN "TARGET HIT"
    ELSE IF ~position.partial_exit_done
            /\ current_price * 100 >= partial_target(position.buy_price)
    THEN "PARTIAL TARGET (50%)"
    ELSE IF current_price * 100
          <= effective_sl(position.buy_price, position.highest_price, atr_value)
    THEN stop_reason(position.buy_price, position.highest_price)
    ELSE IF signal = "SELL"
    THEN "TREND REVERSAL"
    ELSE "NONE"

\* exit_reason without the partial_exit_done test
exit_reason_ignoring_flag(position, current_price, atr_value, signal) ==
    IF current_price * 100
          <= effective_sl(position.buy_price, position.highest_price, atr_value)
    THEN stop_reason(position.buy_price, position.highest_price)
    ELSE IF current_price * 100 >= target(position.buy_price)
    THEN "TARGET HIT"
    ELSE IF current_price * 100 >= partial_target(position.buy_price)
    THEN "PARTIAL TARGET (50%)"
    ELSE IF signal = "SELL"
    THEN "TREND REVERSAL"
    ELSE "NONE"

\* the if/elif chain of the per-symbol pass
exit_reason(position, current_price, atr_value, signal) ==
    IF current_price * 100
          <= effective_sl(position.buy_price, position.highest_price, atr_value)
    THEN stop_reason(position.buy_price, position.highest_price)
    ELSE IF current_price * 100 >= target(position.buy_price)
    THEN "TARGET HIT"
    ELSE IF ~position.partial_exit_done
            /\ current_price * 100 >= partial_target(position.buy_price)
    THEN "PARTIAL TARGET (50%)"
    ELSE IF signal = "SELL"
    THEN "TREND REVERSAL"
    ELSE "NONE"

exit_quantity(reason, quantity) ==
    IF reason = "PARTIAL TARGET (50%)" THEN Max(1, quantity \div 2) ELSE quantity

\* the position as the rule evaluation leaves it before any order is sent
MarkPartial(position, reason) ==
    IF reason = "PARTIAL TARGET (50%)"
    THEN [position EXCEPT !.partial_exit_done = TRUE]
    ELSE position

\* the if/elif chain of the pass over symbols outside Config.SYMBOLS
outside_exit_reason(position, current_price) ==
    IF current_price * 100 <= effective_sl(position.buy_price, position.highest_price, 0)
    THEN stop_reason(position.buy_price, position.highest_price)
    ELSE IF current_price * 100 >= target(position.buy_price)
    THEN "TARGET HIT"
    ELSE "NONE"

\* filter_signal without the conversion
filter_signal_raw(position, signal) == signal

\* `if not position and signal == "SELL": signal = "HOLD"`
filter_signal(position, signal) ==
    IF position = None /\ signal = "SELL" THEN "HOLD" ELSE signal

\* is_external that takes every position for the bot's own
is_external_never(position) == FALSE

\* `not position.get('bot_entered', True)`
is_external(position) == ~position.bot_entered

\* what broker.place_order returns in live trading: an order id, or None
OrderResults == BOOLEAN

Remove(symbol) == [s \in DOMAIN positions \ {symbol} |-> positions[s]]
Put(symbol, position) ==
    [s \in DOMAIN positions \cup {symbol} |->
        IF s = symbol THEN position ELSE positions[s]]

\* the position of a BUY marked as found in the account
opened_position_external(quantity, current_price) ==
    [quantity |-> quantity, buy_price |-> current_price,
     highest_price |-> current_price, bot_entered |-> FALSE,
     partial_exit_done |-> FALSE]

\* `positions[symbol] = {...}` after an accepted BUY
opened_position(quantity, current_price) ==
    [quantity |-> quantity, buy_price |-> current_price,
     highest_price |-> current_price, bot_entered |-> TRUE,
     partial_exit_done |-> FALSE]

(* --------------------- the loop: configured symbols ------------------- *)
symbol == SYMBOLS[idx]

NextSymbol ==
    IF idx < Len(SYMBOLS)
    THEN pc' = "symbols" /\ idx' = idx + 1
    ELSE pc' = "outside" /\ idx' = 1

\* no bars for the symbol, or an exception before the position is read
SymbolNoData ==
    /\ pc = "symbols"
    /\ NextSymbol
    /\ last' = [NoStep EXCEPT !.op = "no_data", !.symbol = symbol]
    /\ UNCHANGED <<positions, TEST_MODE, analytics>>

\* flat, and the signal is no entry signal
FlatNoEntry ==
    /\ pc = "symbols"
    /\ symbol \notin DOMAIN positions
    /\ \E current_price \in Prices, signal \in Signals \ {"BUY", "STRONG_BUY"} :
         last' = [NoStep EXCEPT !.op = "flat", !.symbol = symbol,
                     !.price = current_price, !.raw = signal,
                     !.signal = filter_signal(Get(symbol), signal)]
    /\ NextSymbol
    /\ UNCHANGED <<positions, TEST_MODE, analytics>>

\* entry signal, but MAX_POSITIONS positions are open
EntryMaxPositions ==
    /\ pc = "symbols"
    /\ symbol \notin DOMAIN positions
    /\ Cardinality(DOMAIN positions) >= MAX_POSITIONS
    /\ \E current_price \in Prices, signal \in {"BUY", "STRONG_BUY"} :
         last' = [NoStep EXCEPT !.op = "max_positions", !.symbol = symbol,
                     !.price = current_price, !.raw = signal, !.signal = signal]
    /\ NextSymbol
    /\ UNCHANGED <<positions, TEST_MODE, analytics>>

\* entry signal dropped by the sentiment filter or the resistance check
EntryFiltered ==
    /\ pc = "symbols"
    /\ symbol \notin DOMAIN positions
    /\ Cardinality(DOMAIN positions) < MAX_POSITIONS
    /\ ~TEST_MODE
    /\ \E current_price \in Prices, signal \in {"BUY", "STRONG_BUY"} :
         last' = [NoStep EXCEPT !.op = "filtered", !.symbol = symbol,
                     !.price = current_price, !.raw = signal, !.signal = signal]
    /\ NextSymbol
    /\ UNCHANGED <<positions, TEST_MODE, analytics>>

\* gate_passed with one approval being enough
gate_passed_either(should_trade, ml_take_trade) ==
    TEST_MODE \/ should_trade \/ ml_take_trade

\* the gate: outside test mode both estimators must approve
gate_passed(should_trade, ml_take_trade) ==
    TEST_MODE \/ ~(~should_trade \/ ~ml_take_trade)

\* entry signal that reached the two estimators
Entry ==
    /\ pc = "symbols"
    /\ symbol \notin DOMAIN positions
    /\ Cardinality(DOMAIN positions) < MAX_POSITIONS
    /\ \E current_price \in EntryPrices, signal \in {"BUY", "STRONG_BUY"},
          should_trade \in BOOLEAN, ml_take_trade \in BOOLEAN :
         LET step == [NoStep EXCEPT !.op = "entry", !.symbol = symbol,
                         !.price = current_price, !.raw = signal, !.signal = signal,
                         !.should_trade = should_trade,
                         !.ml_take_trade = ml_take_trade]
         IN IF gate_passed(should_trade, ml_take_trade)
            THEN \E quantity \in 0..MaxQty :
                   IF quantity > 0
                   THEN \E order_result \in OrderResults :
                          /\ last' = [step EXCEPT !.order = "BUY",
                                         !.quantity = quantity,
                                         !.order_result = order_result]
                          /\ positions' =
                               IF order_result
                               THEN Put(symbol, opened_position(quantity,
                                                                current_price))
                               ELSE positions
                   ELSE /\ last' = step
                        /\ positions' = positions
            ELSE /\ last' = step
                 /\ positions' = positions
    /\ NextSymbol
    /\ UNCHANGED <<TEST_MODE, analytics>>

\* a position the bot did not open: price tracking only
TrackExternal ==
    /\ pc = "symbols"
    /\ symbol \in DOMAIN positions
    /\ is_external(positions[symbol])
    /\ \E current_price \in Prices, signal \in HeldSignals :
         /\ positions' = Put(symbol, RaiseHighest(positions[symbol], current_price))
         /\ last' = [NoStep EXCEPT !.op = "external", !.symbol = symbol,
                        !.position = positions[symbol], !.price = current_price,
                        !.raw = signal, !.signal = signal]
    /\ NextSymbol
    /\ UNCHANGED <<TEST_MODE, analytics>>

\* a position the bot opened: exit rules, and the SELL order if one fires
EvaluateExit ==
    /\ pc = "symbols"
    /\ symbol \in DOMAIN positions
    /\ ~is_external(positions[symbol])
    /\ \E current_price \in Prices, signal \in HeldSignals, atr_value \in ATRs :
         LET position == RaiseHighest(positions[symbol], current_price)
             reason == exit_reason(position, current_price, atr_value, signal)
             qty == exit_quantity(reason, position.quantity)
             marked == MarkPartial(position, reason)
             step == [NoStep EXCEPT !.op = "exit", !.symbol = symbol,
                         !.position = positions[symbol], !.price = current_price,
                         !.raw = signal, !.signal = signal,
                         !.exit_reason = reason,
                         !.effective_sl = effective_sl(position.buy_price,
                                              position.highest_price, atr_value)]
         IN IF reason = "NONE"
            THEN /\ positions' = Put(symbol, marked)
                 /\ last' = step
            ELSE \E order_result \in OrderResults :
                   /\ last' = [step EXCEPT !.order = "SELL", !.quantity = qty,
                                  !.order_result = order_result]
                   /\ positions' =
                        IF ~order_result THEN Put(symbol, marked)
                        ELSE IF qty < position.quantity
                        THEN Put(symbol, [marked EXCEPT !.quantity = @ - qty])
                        ELSE Remove(symbol)
    /\ NextSymbol
    /\ UNCHANGED <<TEST_MODE, analytics>>

(* ---------------- the loop: positions outside Config.SYMBOLS ---------- *)
outside_symbol == UntrackedSymbols[idx]

NextOutside ==
    IF idx < Len(UntrackedSymbols)
    THEN pc' = "outside" /\ idx' = idx + 1
    ELSE pc' = "sync" /\ idx' = 1

\* not held, or no bars for it
OutsideSkip ==
    /\ pc = "outside"
    /\ NextOutside
    /\ last' = [NoStep EXCEPT !.op = "outside_skip", !.symbol = outside_symbol]
    /\ UNCHANGED <<positions, TEST_MODE, analytics>>

OutsideTrackExternal ==
    /\ pc = "outside"
    /\ outside_symbol \in DOMAIN positions
    /\ is_external(positions[outside_symbol])
    /\ \E current_price \in Prices :
         /\ positions' = Put(outside_symbol,
                             RaiseHighest(positions[outside_symbol], current_price))
         /\ last' = [NoStep EXCEPT !.op = "outside_external",
                        !.symbol = outside_symbol,
                        !.position = positions[outside_symbol],
                        !.price = current_price]
    /\ NextOutside
    /\ UNCHANGED <<TEST_MODE, analytics>>

\* a bot position on a symbol no longer configured: stop and target only
OutsideEvaluateExit ==
    /\ pc = "outside"
    /\ outside_symbol \in DOMAIN positions
    /\ ~is_external(positions[outside_symbol])
    /\ \E current_price \in Prices, order_result \in OrderResults :
         LET position == RaiseHighest(positions[outside_symbol], current_price)
             reason == outside_exit_reason(position, current_price)
             step == [NoStep EXCEPT !.op = "outside_exit",
                         !.symbol = outside_symbol,
                         !.position = positions[outside_symbol],
                         !.price = current_price,
                         !.exit_reason = reason,
                         !.effective_sl = effective_sl(position.buy_price,
                                              position.highest_price, 0)]
         IN IF reason = "NONE"
            THEN /\ positions' = Put(outside_symbol, position)
                 /\ last' = step
            ELSE /\ last' = [step EXCEPT !.order = "SELL",
                                !.quantity = position.quantity,
                                !.order_result = order_result]
                 /\ positions' = IF order_result THEN Remove(outside_symbol)
                                 ELSE Put(outside_symbol, position)
    /\ NextOutside
    /\ UNCHANGED <<TEST_MODE, analytics>>

Next ==
    \/ LoadPositions
    \/ StartupSync
    \/ StartupSyncFailed
    \/ SyncPositions
    \/ SyncSkipped
    \/ MarketClosed
    \/ MarketOpen
    \/ SymbolNoData
    \/ FlatNoEntry
    \/ EntryMaxPositions
    \/ EntryFiltered
    \/ Entry
    \/ TrackExternal
    \/ EvaluateExit
    \/ OutsideSkip
    \/ OutsideTrackExternal
    \/ OutsideEvaluateExit

Spec == Init /\ [][Next]_vars

(* ------------------------------ properties ---------------------------- *)
\* the last step evaluated exit rules (in either pass) for a bot position
ExitEvaluated == last.op \in {"exit", "outside_exit"}
\* the rule conditions of the last evaluation, from what the step read
StopHit == last.price * 100 <= last.effective_sl
TargetHit == last.price * 100 >= last.position.buy_price * (100 + TARGET_PCT)
PartialHit == /\ ~last.position.partial_exit_done
              /\ last.price * 200 >= last.position.buy_price * (200 + TARGET_PCT)
StopReasons == {"STOP LOSS", "TRAILING SL"}

\* C1: when the SELL order of an exit fails, the position is still tracked
\* with the quantity, entry price and partial-exit flag it had before the
\* attempt.
C1_FailedExitLeavesPosition ==
    (ExitEvaluated /\ last.order = "SELL" /\ ~last.order_result)
        => /\ last.symbol \in DOMAIN positions
           /\ positions[last.symbol].quantity = last.position.quantity
           /\ positions[last.symbol].buy_price = last.position.buy_price
           /\ positions[last.symbol].partial_exit_done
                 = last.position.partial_exit_done

\* C2: no SELL order is placed for an externally owned position; a step on
\* one evaluates no exit rule, sends no order and keeps the position.
C2_ExternalNeverSold ==
    /\ last.order = "SELL" => last.position.bot_entered
    /\ (last.position # None /\ ~last.position.bot_entered)
          => /\ last.exit_reason = "NONE"
             /\ last.order = "NONE"
             /\ last.symbol \in DOMAIN positions
             /\ positions[last.symbol].quantity = last.position.quantity

\* an external position on a configured symbol saw a SELL signal at a price
\* under its trailing stop level
C2_Witness ==
    /\ last.op = "external"
    /\ last.raw = "SELL"
    /\ last.price * 100
          <= last.position.highest_price * (100 - TRAILING_SL_PCT)

\* C3: the number of open positions never exceeds MAX_POSITIONS (positions
\* are keyed by symbol, so there is one per symbol).
C3_AtMostMaxPositions == Cardinality(DOMAIN positions) <= MAX_POSITIONS

\* C4 as claimed: a BUY order is placed only when both estimators approved.
C4_BuyOnlyWhenBothApprove ==
    last.order = "BUY" => (last.should_trade /\ last.ml_take_trade)

\* C4: outside test mode a BUY order is placed, and a position created, only
\* when the learning estimator and the classifier both approved.
C4_BuyOnlyWhenBothApproveOrTestMode ==
    last.order = "BUY" => (TEST_MODE \/ (last.should_trade /\ last.ml_take_trade))

\* outside test mode a BUY went through and opened the position
C4_Witness ==
    /\ ~TEST_MODE
    /\ last.order = "BUY"
    /\ last.order_result
    /\ last.symbol \in DOMAIN positions

C6_HighWaterNeverDecreases ==
    [][\A s \in DOMAIN positions \cap DOMAIN positions' :
          /\ positions'[s].highest_price >= positions[s].highest_price
          /\ trailing_sl(positions'[s].highest_price)
                >= trailing_sl(positions[s].highest_price)]_vars

\* a position is open after a cycle whose price was under its high
C6_Witness ==
    /\ last.op \in {"exit", "external"}
    /\ last.symbol \in DOMAIN positions
    /\ last.price < last.position.highest_price
    /\ last.position.highest_price > last.position.buy_price

\* C7: the effective stop of every evaluation is at least the fixed stop.
C7_EffectiveStopAtLeastFixed ==
    ExitEvaluated =>
        last.effective_sl >= last.position.buy_price * (100 - SL_PCT)

\* the ATR stop was the binding one
C7_Witness ==
    /\ last.op = "exit"
    /\ last.effective_sl > last.position.buy_price * (100 - SL_PCT)
    /\ last.effective_sl
          > Max(last.position.highest_price, last.price) * (100 - TRAILING_SL_PCT)

\* C8: a position whose partial-exit flag is set gets no partial-target
\* exit, and the flag stays set as long as the position is open.
C8_PartialExitOnce ==
    /\ [](last.position.partial_exit_done
             => last.exit_reason # "PARTIAL TARGET (50%)")
    /\ [][\A s \in DOMAIN positions \cap DOMAIN positions' :
             positions[s].partial_exit_done => positions'[s].partial_exit_done]_vars

\* the price is in the partial-target band again after the partial exit
C8_Witness ==
    /\ last.op = "exit"
    /\ last.position.partial_exit_done
    /\ last.price * 200 >= last.position.buy_price * (200 + TARGET_PCT)
    /\ ~StopHit
    /\ ~TargetHit
    /\ last.exit_reason = "NONE"

\* C9: a SELL signal on a flat symbol is shown as HOLD, places no order and
\* leaves the position map as it was.
C9_SellWhileFlatIsHold ==
    [][(pc = "symbols" /\ symbol \notin DOMAIN positions /\ last'.raw = "SELL")
          => /\ last'.signal = "HOLD"
             /\ last'.order = "NONE"
             /\ positions' = positions]_vars

\* a flat configured symbol saw a SELL signal
C9_Witness ==
    /\ last.op = "flat"
    /\ last.raw = "SELL"
    /\ last.signal = "HOLD"
    /\ last.symbol \notin DOMAIN positions

\* what a periodic sync never does to a position the bot opened: remove it,
\* change its entry price, its ownership or its partial-exit flag, lower its
\* high-water mark
SyncKeepsBotPosition(s) ==
    /\ s \in DOMAIN positions'
    /\ positions'[s].buy_price = positions[s].buy_price
    /\ positions'[s].bot_entered
    /\ positions'[s].partial_exit_done = positions[s].partial_exit_done
    /\ positions'[s].highest_price >= positions[s].highest_price

Created(s) ==
    /\ pc \in {"symbols", "outside"}
    /\ s \notin DOMAIN positions
    /\ s \in DOMAIN positions'

\* what C32 asks of the step that created the position of s, but for the gate
CreatedByEntry(s) ==
    /\ last'.op = "entry" /\ last'.symbol = s
    /\ last'.signal \in {"BUY", "STRONG_BUY"}
    /\ last'.order = "BUY" /\ last'.quantity > 0 /\ last'.order_result
    /\ positions'[s].quantity = last'.quantity
    /\ positions'[s].buy_price = last'.price
    /\ positions'[s].highest_price = last'.price
    /\ ~positions'[s].partial_exit_done
    /\ positions'[s].bot_entered

MaxRows == 11

min_trades_for_kelly == 10
max_kelly_fraction == Frac(25, 100)

RECURSIVE SumPnl(_)
SumPnl(rows) ==
    IF rows = <<>> THEN 0 ELSE Abs(Head(rows).pnl) + SumPnl(Tail(rows))

\* get_trade_statistics with the symbol filter left out
get_trade_statistics_any_symbol(file, symbol_asked) ==
    LET sells == SelectSeq(file, LAMBDA row : row.action = "SELL")
        wins == SelectSeq(sells, LAMBDA row : row.pnl > 0)
        losses == SelectSeq(sells, LAMBDA row : row.pnl < 0)
        total_trades == Len(wins) + Len(losses)
        avg_win == IF wins # <<>> THEN Frac(SumPnl(wins), Len(wins)) ELSE Whole(0)
        avg_loss == IF losses # <<>> THEN Frac(SumPnl(losses), Len(losses))
                    ELSE Whole(1)
    IN IF total_trades < min_trades_for_kelly THEN NoStats
       ELSE [present |-> TRUE, total_trades |-> total_trades,
             wins |-> Len(wins), losses |-> Len(losses),
             win_rate |-> Frac(Len(wins), total_trades),
             avg_win |-> avg_win, avg_loss |-> avg_loss,
             payoff_ratio |-> IF FLt(Whole(0), avg_loss)
                              THEN FDiv(avg_win, avg_loss) ELSE Whole(1)]

\* symbol_asked "" stands for symbol=None (all symbols)
get_trade_statistics(file, symbol_asked) ==
    LET sells == SelectSeq(file, LAMBDA row :
                    row.action = "SELL" /\ (symbol_asked = "" \/ row.symbol = symbol_asked))
        wins == SelectSeq(sells, LAMBDA row : row.pnl > 0)
        losses == SelectSeq(sells, LAMBDA row : row.pnl < 0)
        total_trades == Len(wins) + Len(losses)
        avg_win == IF wins # <<>> THEN Frac(SumPnl(wins), Len(wins)) ELSE Whole(0)
        avg_loss == IF losses # <<>> THEN Frac(SumPnl(losses), Len(losses))
                    ELSE Whole(1)
    IN IF total_trades < min_trades_for_kelly THEN NoStats
       ELSE [present |-> TRUE, total_trades |-> total_trades,
             wins |-> Len(wins), losses |-> Len(losses),
             win_rate |-> Frac(Len(wins), total_trades),
             avg_win |-> avg_win, avg_loss |-> avg_loss,
             payoff_ratio |-> IF FLt(Whole(0), avg_loss)
                              THEN FDiv(avg_win, avg_loss) ELSE Whole(1)]

\* what a call gives: a value, or an exception (raised) and no value
Returned(value) == [raised |-> FALSE, value |-> value]
Raised == [raised |-> TRUE, value |-> Whole(0)]

calculate_kelly_fraction(stats) ==
    IF ~stats.present THEN Returned(Frac(MAX_POSITION_PCT, 100))
    ELSE LET p == stats.win_rate
             q == FSub(Whole(1), p)
             b == stats.payoff_ratio
         IN IF b = Whole(0) THEN Raised  \* ZeroDivisionError at `/ b`
            ELSE LET kelly == FDiv(FSub(FMul(p, b), q), b)
                     clamped == FMax(Whole(0), FMin(kelly, max_kelly_fraction))
                 IN Returned(FDiv(clamped, Whole(2)))

\* floor of a fraction: `int(position_value // price)`
Floor(x) == x[1] \div x[2]

\* calculate_position_size without the one-unit floor
calculate_position_size_rounded(capital, price, symbol_asked, confidence) ==
    LET kelly_fraction ==
            calculate_kelly_fraction(get_trade_statistics(trade_file, symbol_asked))
    IN IF kelly_fraction.raised THEN [raised |-> TRUE, value |-> 0]
       ELSE LET adjusted_fraction == FMul(kelly_fraction.value, confidence)
                position_value == FMul(Whole(capital), adjusted_fraction)
            IN [raised |-> FALSE,
                value |-> Floor(FDiv(position_value, Whole(price)))]

calculate_position_size(capital, price, symbol_asked, confidence) ==
    LET kelly_fraction ==
            calculate_kelly_fraction(get_trade_statistics(trade_file, symbol_asked))
    IN IF kelly_fraction.raised THEN [raised |-> TRUE, value |-> 0]
       ELSE LET adjusted_fraction == FMul(kelly_fraction.value, confidence)
                position_value == FMul(Whole(capital), adjusted_fraction)
                quantity == Floor(FDiv(position_value, Whole(price)))
            IN [raised |-> FALSE,
                value |-> IF quantity = 0 /\ capital >= price THEN 1
                          ELSE quantity]

\* trade logs the sizer can find: closed trades of the symbol asked for
\* (wins, losses, break-even), closed trades of another symbol, and entries
Replicate(row, n) == [i \in 1..n |-> row]

TradeFiles ==
    {Replicate(Row("SELL", "GOLDBEES-EQ", "", "TARGET HIT", 8, 35, 10), w)
       \o Replicate(Row("SELL", "GOLDBEES-EQ", "", "TRAILING SL", -5, 35, 10), l)
       \o Replicate(Row("SELL", "GOLDBEES-EQ", "", "TREND REVERSAL", 0, 35, 10), z)
       \o Replicate(Row("SELL", "SILVERBEES-EQ", "", "TRAILING SL", -5, 35, 10), o)
       \o Replicate(Row("BUY", "GOLDBEES-EQ", "BUY", "", 0, 35, 10), b) :
       w \in 0..MaxRows, l \in 0..MaxRows, z \in 0..1, o \in 0..MaxRows,
       b \in 0..1} 

SizerFiles == {file \in TradeFiles : Len(file) <= MaxRows}

\* Config.CAPITAL, and an account that cannot pay one unit
Capitals == {50, 1000}
SizerPrices == {100, 104}
\* combined confidences: 0, the test-mode 0.75, 1
Confidences == {Whole(0), Frac(3, 4), Whole(1)}
Scopes == {"", "GOLDBEES-EQ"}

SizerInit ==
    /\ positions = <<>>
    /\ pc = "sizer"
    /\ idx = 1
    /\ TEST_MODE = FALSE
    /\ last = NoStep
    /\ trade_file \in SizerFiles
    /\ insights = load_insights
    /\ probe = NoProbe
    /\ ledger = NoLedger
    /\ account = NoAccount

CalculateKellyFraction ==
    /\ pc = "sizer"
    /\ \E symbol_asked \in Scopes :
         LET stats == get_trade_statistics(trade_file, symbol_asked)
             result == calculate_kelly_fraction(stats)
         IN probe' = [NoProbe EXCEPT !.op = "kelly", !.symbol = symbol_asked,
                         !.stats = stats, !.raised = result.raised,
                         !.fraction = result.value]
    /\ UNCHANGED <<loop, account, trade_file, insights, ledger>>

CalculatePositionSize ==
    /\ pc = "sizer"
    /\ \E capital \in Capitals, price \in SizerPrices, symbol_asked \in Scopes,
          confidence \in Confidences :
         LET stats == get_trade_statistics(trade_file, symbol_asked)
             kelly_fraction == calculate_kelly_fraction(stats)
             result == calculate_position_size(capital, price, symbol_asked,
                                               confidence)
         IN probe' = [NoProbe EXCEPT !.op = "size", !.symbol = symbol_asked,
                         !.stats = stats, !.raised = result.raised,
                         !.fraction = kelly_fraction.value,
                         !.capital = capital, !.price = price,
                         !.confidence = confidence,
                         !.quantity = result.value]
    /\ UNCHANGED <<loop, account, trade_file, insights, ledger>>

SizerNext ==
    \/ CalculateKellyFraction
    \/ CalculatePositionSize

SizerSpec == SizerInit /\ [][SizerNext]_vars

\* closed trades (SELL rows) of the scope asked for
ClosedTrades(file, symbol_asked) ==
    Len(SelectSeq(file, LAMBDA row :
           row.action = "SELL" /\ (symbol_asked = "" \/ row.symbol = symbol_asked)))

\* C11: the fraction calculate_kelly_fraction returns is within
\* [0, max_kelly_fraction / 2], whatever the trade history.
C11_KellyFractionWithinHalfMax ==
    (probe.op = "kelly" /\ ~probe.raised)
        => /\ FLe(Whole(0), probe.fraction)
           /\ FLe(probe.fraction, FDiv(max_kelly_fraction, Whole(2)))

\* C12: for a history of at least min_trades_for_kelly closed trades, all
\* of them losses, calculate_kelly_fraction returns 0 and does not raise.
C12_AllLossesGiveZero ==
    (probe.op = "kelly" /\ probe.stats.present /\ probe.stats.wins = 0)
        => /\ ~probe.raised
           /\ probe.fraction = Whole(0)

\* C13: with fewer than min_trades_for_kelly closed trades in the scope asked
\* for, no statistics are built, the formula is not evaluated and the
\* fraction returned is Config.MAX_POSITION_PCT.
C13_FewTradesGiveDefault ==
    (probe.op = "kelly"
       /\ ClosedTrades(trade_file, probe.symbol) < min_trades_for_kelly)
        => /\ ~probe.stats.present
           /\ ~probe.raised
           /\ probe.fraction = Frac(MAX_POSITION_PCT, 100)

\* the log has enough closed trades, the symbol asked for has not
C13_Witness ==
    /\ probe.op = "kelly"
    /\ probe.symbol = "GOLDBEES-EQ"
    /\ ClosedTrades(trade_file, "GOLDBEES-EQ") \in 1..(min_trades_for_kelly - 1)
    /\ get_trade_statistics_any_symbol(trade_file, "").present
    /\ probe.fraction = Frac(MAX_POSITION_PCT, 100)

\* C14: calculate_position_size returns the floor of
\* capital x fraction x confidence / price, but 1 when that floor is 0 and
\* the capital pays for one unit; it returns 0 only when capital < price.
C14_QuantityFlooredAtOneUnit ==
    (probe.op = "size" /\ ~probe.raised) =>
        LET position_value ==
                FMul(Whole(probe.capital), FMul(probe.fraction, probe.confidence))
        IN /\ \E f \in 0..probe.capital :
                /\ FLe(Whole(f * probe.price), position_value)
                /\ FLt(position_value, Whole((f + 1) * probe.price))
                /\ probe.quantity =
                      IF f = 0 /\ probe.capital >= probe.price THEN 1 ELSE f
           /\ probe.quantity = 0 => probe.capital < probe.price

\* the position value pays for no unit, the capital does: one unit
C14_Witness ==
    /\ probe.op = "size"
    /\ ~probe.raised
    /\ FLt(FMul(Whole(probe.capital), FMul(probe.fraction, probe.confidence)),
           Whole(probe.price))
    /\ probe.capital >= probe.price
    /\ probe.quantity = 1

(* ====================================================================== *)
(* learning engine (learning_engine.py)                                   *)
(* ====================================================================== *)
Range(seq) == {seq[i] : i \in 1..Len(seq)}
SeqMin(seq) == CHOOSE x \in Range(seq) : \A y \in Range(seq) : x <= y
SeqMax(seq) == CHOOSE x \in Range(seq) : \A y \in Range(seq) : x >= y

RECURSIVE SeqSum(_)
SeqSum(seq) == IF seq = <<>> THEN 0 ELSE Head(seq) + SeqSum(Tail(seq))

\* wins / losses / total_pnl counters after one more trade
Tally(perf, pnl) ==
    [wins |-> perf.wins + (IF pnl > 0 THEN 1 ELSE 0),
     losses |-> perf.losses + (IF pnl > 0 THEN 0 ELSE 1),
     total_pnl |-> perf.total_pnl + pnl]

NoTally == [wins |-> 0, losses |-> 0, total_pnl |-> 0]

\* hour_performance: a dict, kept in insertion order
TallyHour(hour_performance, hour, pnl) ==
    IF \E i \in 1..Len(hour_performance) : hour_performance[i].hour = hour
    THEN [i \in 1..Len(hour_performance) |->
            IF hour_performance[i].hour = hour
            THEN [hour |-> hour, perf |-> Tally(hour_performance[i].perf, pnl)]
            ELSE hour_performance[i]]
    ELSE Append(hour_performance, [hour |-> hour, perf |-> Tally(NoTally, pnl)])

\* the running mean of exit_performance
TallyExit(stats, pnl) ==
    LET count == stats.count + 1
    IN [count |-> count,
        avg_pnl |-> FDiv(FAdd(FMul(stats.avg_pnl, Whole(count - 1)), Whole(pnl)),
                         Whole(count))]

\* the locals and the insights fields the loop over sell_trades works on,
\* as they are before the first row
AnalysisStart(ins) ==
    [signal_performance |-> [t \in SignalTypes |-> NoTally],
     exit_performance |-> ins.exit_performance,
     symbol_performance |-> ins.symbol_performance,
     winning_rsi |-> <<>>, losing_rsi |-> <<>>, hour_performance |-> <<>>]

\* the body of `for sell in sell_trades`
AnalyzeSell(acc, sell) ==
    [signal_performance |->
        IF sell.signal_type \in SignalTypes
        THEN [acc.signal_performance EXCEPT
                 ![sell.signal_type] = Tally(@, sell.pnl)]
        ELSE acc.signal_performance,
     exit_performance |->
        IF sell.reason \in ExitKeys
        THEN [acc.exit_performance EXCEPT ![sell.reason] = TallyExit(@, sell.pnl)]
        ELSE acc.exit_performance,
     symbol_performance |->
        [s \in DOMAIN acc.symbol_performance \cup {sell.symbol} |->
            IF s = sell.symbol
            THEN Tally(IF s \in DOMAIN acc.symbol_performance
                       THEN acc.symbol_performance[s] ELSE NoTally, sell.pnl)
            ELSE acc.symbol_performance[s]],
     winning_rsi |-> IF sell.rsi > 0 /\ sell.pnl > 0
                     THEN Append(acc.winning_rsi, sell.rsi) ELSE acc.winning_rsi,
     losing_rsi |-> IF sell.rsi > 0 /\ ~(sell.pnl > 0)
                    THEN Append(acc.losing_rsi, sell.rsi) ELSE acc.losing_rsi,
     hour_performance |-> TallyHour(acc.hour_performance, sell.hour, sell.pnl)]

RECURSIVE AnalyzeSells(_, _)
AnalyzeSells(acc, sell_trades) ==
    IF sell_trades = <<>> THEN acc
    ELSE AnalyzeSells(AnalyzeSell(acc, Head(sell_trades)), Tail(sell_trades))

\* sorted(..., key=total_pnl, reverse=True): stable, descending
RECURSIVE SortedHours(_)
SortedHours(hour_performance) ==
    IF hour_performance = <<>> THEN <<>>
    ELSE LET n == Len(hour_performance)
             x == hour_performance[n]
             rest == SortedHours(SubSeq(hour_performance, 1, n - 1))
             ahead == SelectSeq(rest, LAMBDA h :
                         h.perf.total_pnl >= x.perf.total_pnl)
             behind == SelectSeq(rest, LAMBDA h :
                         h.perf.total_pnl < x.perf.total_pnl)
         IN ahead \o <<x>> \o behind

Hours(sorted_hours) == [i \in 1..Len(sorted_hours) |-> sorted_hours[i].hour]

\* best_rsi_range out of the RSI values of the winning trades
best_rsi_range(winning_rsi) ==
    <<Max(20, SeqMin(winning_rsi) - 5),
      IF 50 <= SeqMax(winning_rsi) + 5 THEN 50 ELSE SeqMax(winning_rsi) + 5>>

\* sl_pct in tenths of a percent
generate_adjustments(ins) ==
    LET best_range == ins.rsi_analysis.best_rsi_range
        target_stats == ins.exit_performance["Target Hit"]
        sl_stats == ins.exit_performance["Stop Loss"]
        total_exits == target_stats.count + sl_stats.count
        both == target_stats.count > 0 /\ sl_stats.count > 0
        rsi_oversold == IF best_range[1] # RSI_OVERSOLD THEN best_range[1]
                        ELSE ins.adjustments.rsi_oversold
        sl_pct == IF both /\ 2 * sl_stats.count > total_exits
                  THEN (IF 80 <= 10 * SL_PCT + 5 THEN 80 ELSE 10 * SL_PCT + 5)
                  ELSE IF both /\ 5 * sl_stats.count < total_exits
                  THEN Max(20, 10 * SL_PCT - 5)
                  ELSE ins.adjustments.sl_pct
    IN [ins EXCEPT !.adjustments = [rsi_oversold |-> rsi_oversold,
                                    sl_pct |-> sl_pct]]

analyze_trades(ins, trades) ==
    IF Len(trades) < 2 THEN ins
    ELSE LET sell_trades == SelectSeq(trades, LAMBDA t : t.action = "SELL")
             acc == AnalyzeSells(AnalysisStart(ins), sell_trades)
             sorted_hours == SortedHours(acc.hour_performance)
             n == Len(sorted_hours)
             rsi_analysis ==
                [winning_rsi_avg |->
                    IF acc.winning_rsi # <<>>
                    THEN Frac(SeqSum(acc.winning_rsi), Len(acc.winning_rsi))
                    ELSE ins.rsi_analysis.winning_rsi_avg,
                 losing_rsi_avg |->
                    IF acc.losing_rsi # <<>>
                    THEN Frac(SeqSum(acc.losing_rsi), Len(acc.losing_rsi))
                    ELSE ins.rsi_analysis.losing_rsi_avg,
                 best_rsi_range |->
                    IF acc.winning_rsi # <<>> THEN best_rsi_range(acc.winning_rsi)
                    ELSE ins.rsi_analysis.best_rsi_range]
             time_analysis ==
                IF acc.hour_performance # <<>>
                THEN [best_hours |-> Hours(SubSeq(sorted_hours, 1,
                                              IF n < 3 THEN n ELSE 3)),
                      worst_hours |-> Hours(SubSeq(sorted_hours,
                                               Max(1, n - 1), n))]
                ELSE ins.time_analysis
         IN generate_adjustments(
               [ins EXCEPT !.signal_performance = acc.signal_performance,
                           !.exit_performance = acc.exit_performance,
                           !.symbol_performance = acc.symbol_performance,
                           !.rsi_analysis = rsi_analysis,
                           !.time_analysis = time_analysis,
                           !.total_trades_analyzed = Len(sell_trades)])

\* most rows the loop writes to the trade log, most restarts of the process
MaxLogRows == 4
MaxRestarts == 1

\* exits the loop executes: reason and PnL of the units sold
ExitKinds ==
    {<<"STOP LOSS", -5>>, <<"TRAILING SL", -3>>, <<"TRAILING SL", 2>>,
     <<"TARGET HIT", 8>>, <<"PARTIAL TARGET (50%)", 4>>,
     <<"TREND REVERSAL", -1>>, <<"TREND REVERSAL", 1>>}
\* RSI and hour of the cycle that sells
ExitRsis == {35, 60}
ExitHours == {10, 14}

LearningInit ==
    /\ positions = <<>>
    /\ pc = "learning"
    /\ idx = 1
    /\ TEST_MODE = FALSE
    /\ last = NoStep
    /\ trade_file = <<>>
    /\ insights = load_insights
    /\ probe = NoProbe
    /\ ledger = NoLedger
    /\ account = NoAccount

\* a BUY went through: logger.log_trade(symbol, "BUY", ..., signal, "", 0, ...)
LogEntry ==
    /\ pc = "learning"
    /\ ledger.open_signal = ""
    /\ Len(trade_file) < MaxLogRows
    /\ \E signal \in {"BUY", "STRONG_BUY"} :
         /\ trade_file' = Append(trade_file,
                Row("BUY", "GOLDBEES-EQ", signal, "", 0, 35, 10))
         /\ ledger' = [ledger EXCEPT !.open_signal = signal]
    /\ probe' = [NoProbe EXCEPT !.op = "log_buy"]
    /\ UNCHANGED <<loop, account, insights>>

\* a SELL went through: logger.log_trade(symbol, "SELL", ..., "", exit_reason,
\* pnl, indicators), and analyze_trades() when the whole position was sold
LogExit ==
    /\ pc = "learning"
    /\ ledger.open_signal # ""
    /\ Len(trade_file) < MaxLogRows
    /\ \E kind \in ExitKinds, rsi \in ExitRsis, hour \in ExitHours,
          one_unit \in BOOLEAN :
         LET exit_reason_logged == kind[1]
             pnl == kind[2]
             \* exit_quantity == quantity: every exit but a partial one of
             \* a position of more than one unit
             full == exit_reason_logged # "PARTIAL TARGET (50%)" \/ one_unit
             row == Row("SELL", "GOLDBEES-EQ", "", exit_reason_logged, pnl,
                        rsi, hour)
         IN /\ trade_file' = Append(trade_file, row)
            /\ insights' = IF full THEN analyze_trades(insights, trade_file')
                           ELSE insights
            /\ ledger' =
                 [ledger EXCEPT
                    !.open_signal = IF full THEN "" ELSE @,
                    !.exits[exit_reason_logged] = @ + 1,
                    !.closed[ledger.open_signal] =
                       IF ~full THEN @
                       ELSE [wins |-> @.wins + (IF pnl > 0 THEN 1 ELSE 0),
                             losses |-> @.losses + (IF pnl > 0 THEN 0 ELSE 1)]]
            /\ probe' = [NoProbe EXCEPT
                           !.op = IF full THEN "exit_full" ELSE "exit_partial"]
    /\ UNCHANGED <<loop, account>>

\* the process starts again: the engine loads the insights it saved and main
\* runs analyze_trades() before the loop
Restart ==
    /\ pc = "learning"
    /\ ledger.restarts < MaxRestarts
    /\ insights' = analyze_trades(insights, trade_file)
    /\ ledger' = [ledger EXCEPT !.restarts = @ + 1]
    /\ probe' = [NoProbe EXCEPT !.op = "analyze"]
    /\ UNCHANGED <<loop, account, trade_file>>

LearningNext ==
    \/ LogEntry
    \/ LogExit
    \/ Restart

LearningSpec == LearningInit /\ [][LearningNext]_vars

\* an analysis pass has run on the log as it is
Analyzed == probe.op \in {"exit_full", "analyze"} /\ Len(trade_file) >= 2

\* the exit_performance key an exit reason of the loop stands for
ExitKeyOf(reason) ==
    CASE reason = "STOP LOSS" -> "Stop Loss"
      [] reason = "TRAILING SL" -> "Trailing SL"
      [] reason = "TARGET HIT" -> "Target Hit"
      [] reason = "TREND REVERSAL" -> "Trend Reversal"

\* C16: after an analysis pass the per-signal-type wins and losses are those
\* of the positions the loop opened with that signal type and fully closed.
C16_ClosedTradesCountedBySignalType ==
    Analyzed =>
        \A t \in SignalTypes :
           /\ insights.signal_performance[t].wins = ledger.closed[t].wins
           /\ insights.signal_performance[t].losses = ledger.closed[t].losses

\* C17: after an analysis pass every SELL the loop executed with reason stop
\* loss, trailing stop, target hit or trend reversal is counted in the
\* exit statistics of that reason.
C17_ExitsCountedByReason ==
    Analyzed =>
        \A r \in LoopReasons \ {"PARTIAL TARGET (50%)"} :
           insights.exit_performance[ExitKeyOf(r)].count >= ledger.exits[r]

\* C18: a second analysis pass on the same trade log leaves the insights as
\* the first pass made them.
C18_AnalyzeTradesIdempotent ==
    Analyzed => analyze_trades(insights, trade_file) = insights

\* C20: after an analysis pass the optimal RSI band [lo, hi] satisfies
\* 20 <= lo <= hi <= 50.
C20_RsiBandOrderedAndClamped ==
    Analyzed =>
        LET band == insights.rsi_analysis.best_rsi_range
        IN 20 <= band[1] /\ band[1] <= band[2] /\ band[2] <= 50

(* --------------------------- confidence gate -------------------------- *)
\* most closed trades in a log the engine has analysed
MaxGateRows == 6

InSeq(x, seq) == \E i \in 1..Len(seq) : seq[i] = x

\* factor of the signal type's win rate; it applies only to more than 5 trades
signal_factor(ins, signal_type) ==
    LET sig_perf == ins.signal_performance[signal_type]
        total == sig_perf.wins + sig_perf.losses
    IN IF total > 5 /\ 10 * sig_perf.wins < 4 * total THEN Frac(7, 10)
       ELSE IF total > 5 /\ 10 * sig_perf.wins > 6 * total THEN Frac(12, 10)
       ELSE Whole(1)

rsi_factor(ins, rsi) ==
    LET best_range == ins.rsi_analysis.best_rsi_range
    IN IF ~(best_range[1] <= rsi /\ rsi <= best_range[2]) THEN Frac(8, 10)
       ELSE Frac(11, 10)

hour_factor(ins, hour) ==
    IF InSeq(hour, ins.time_analysis.worst_hours) THEN Frac(7, 10)
    ELSE IF InSeq(hour, ins.time_analysis.best_hours) THEN Frac(12, 10)
    ELSE Whole(1)

\* LearningEngine.should_take_trade: (should_trade, confidence)
should_take_trade(ins, signal_type, rsi, hour) ==
    LET confidence == FMul(FMul(signal_factor(ins, signal_type),
                                rsi_factor(ins, rsi)),
                           hour_factor(ins, hour))
    IN [should_trade |-> FLe(Frac(8, 10), confidence),
        confidence |-> confidence]

\* MLPredictor._simple_predict: (score, confidence)
simple_predict(rsi, macd_above_signal) ==
    LET rsi_score == IF 30 <= rsi /\ rsi <= 40 THEN Frac(15, 100)
                     ELSE IF rsi < 30 THEN Frac(10, 100)
                     ELSE IF rsi > 70 THEN Frac(-15, 100)
                     ELSE Whole(0)
        macd_score == IF macd_above_signal THEN Frac(10, 100)
                      ELSE Frac(-10, 100)
        score == FMax(Whole(0), FMin(Whole(1),
                     FAdd(FAdd(Frac(1, 2), rsi_score), macd_score)))
        distance == FSub(score, Frac(1, 2))
    IN [probability |-> score,
        confidence |-> FMul(Whole(2), FMax(distance, FSub(Whole(0), distance)))]

\* MLPredictor.predict with a trained classifier giving win_probability
predict(win_probability) ==
    LET distance == FSub(win_probability, Frac(1, 2))
    IN [probability |-> win_probability,
        confidence |-> FMul(Whole(2), FMax(distance, FSub(Whole(0), distance)))]

\* MLPredictor.should_take_trade, threshold 0.55
ml_should_take_trade(prediction) ==
    [take_trade |-> FLe(Frac(55, 100), prediction.probability),
     probability |-> prediction.probability,
     confidence |-> prediction.confidence]

\* logs the engine has analysed: closed trades of signal type BUY, the wins
\* at RSI 35 in hour 10, the losses at RSI 45 in hour 14
GateFiles ==
    {Replicate(Row("SELL", "GOLDBEES-EQ", "BUY", "Target Hit", 8, 35, 10), w)
       \o Replicate(Row("SELL", "GOLDBEES-EQ", "BUY", "Stop Loss", -5, 45, 14), l) :
     w \in 0..MaxGateRows, l \in 0..MaxGateRows}
GateLogs == {file \in GateFiles : Len(file) <= MaxGateRows}

GateSignals == {"BUY", "STRONG_BUY"}
GateRsis == {25, 35, 45}
GateHours == {10, 12, 14}
\* win probabilities of a trained classifier
WinProbabilities == {Whole(0), Frac(1, 2), Frac(9, 10), Whole(1)}

GateInit ==
    /\ positions = <<>>
    /\ pc = "gate"
    /\ idx = 1
    /\ TEST_MODE \in BOOLEAN
    /\ last = NoStep
    /\ trade_file \in GateLogs
    /\ insights = analyze_trades(load_insights, trade_file)
    /\ probe = NoProbe
    /\ ledger = NoLedger
    /\ account = NoAccount

\* learning_engine.should_take_trade(signal, rsi, current_hour)
ShouldTakeTrade ==
    /\ pc = "gate"
    /\ \E signal_type \in GateSignals, rsi \in GateRsis, hour \in GateHours :
         LET learn == should_take_trade(insights, signal_type, rsi, hour)
         IN probe' = [NoProbe EXCEPT !.op = "should_take_trade",
                         !.signal_type = signal_type, !.rsi = rsi,
                         !.hour = hour, !.should_trade = learn.should_trade,
                         !.learn_confidence = learn.confidence]
    /\ UNCHANGED <<loop, account, trade_file, insights, ledger>>

\* the confidence gate of an entry and the sizer call behind it
GateOutcome(signal_type, rsi, hour, prediction) ==
    LET learn == should_take_trade(insights, signal_type, rsi, hour)
        ml == ml_should_take_trade(prediction)
        mean == FDiv(FAdd(learn.confidence, ml.confidence), Whole(2))
        combined_confidence == IF TEST_MODE THEN Frac(75, 100) ELSE mean
        skipped == ~TEST_MODE /\ (~learn.should_trade \/ ~ml.take_trade)
        sized == calculate_position_size(CAPITAL, 100, "GOLDBEES-EQ",
                                         combined_confidence)
    IN [NoProbe EXCEPT !.op = IF skipped THEN "gate_skipped" ELSE "gate_size",
           !.symbol = "GOLDBEES-EQ", !.signal_type = signal_type,
           !.rsi = rsi, !.hour = hour, !.should_trade = learn.should_trade,
           !.learn_confidence = learn.confidence,
           !.ml_confidence = ml.confidence,
           !.confidence = combined_confidence,
           !.capital = CAPITAL, !.price = 100,
           !.raised = ~skipped /\ sized.raised,
           !.quantity = IF skipped THEN 0 ELSE sized.value]

\* an entry candidate scored by the heuristic (no trained classifier)
GateHeuristic ==
    /\ pc = "gate"
    /\ \E signal_type \in GateSignals, rsi \in GateRsis, hour \in GateHours,
          macd_above_signal \in BOOLEAN :
         probe' = GateOutcome(signal_type, rsi, hour,
                              simple_predict(rsi, macd_above_signal))
    /\ UNCHANGED <<loop, account, trade_file, insights, ledger>>

\* an entry candidate scored by a trained classifier
GateClassifier ==
    /\ pc = "gate"
    /\ \E signal_type \in GateSignals, rsi \in GateRsis, hour \in GateHours,
          win_probability \in WinProbabilities :
         probe' = GateOutcome(signal_type, rsi, hour, predict(win_probability))
    /\ UNCHANGED <<loop, account, trade_file, insights, ledger>>

GateNext ==
    \/ ShouldTakeTrade
    \/ GateHeuristic
    \/ GateClassifier

GateSpec == GateInit /\ [][GateNext]_vars

\* C15: the confidence the entry logic hands to the sizer, the mean of the
\* learning confidence and the classifier confidence, is within [0, 1].
C15_SizerConfidenceWithinUnit ==
    probe.op = "gate_size" =>
        FLe(Whole(0), probe.confidence) /\ FLe(probe.confidence, Whole(1))

\* C19: with exactly 5 closed trades of the signal type, should_take_trade
\* multiplies the confidence by 0.7 when their win rate is below 40% and by
\* 1.2 when it is above 60%.
C19_FactorFromFiveTrades ==
    probe.op = "should_take_trade" =>
        LET sig_perf == insights.signal_performance[probe.signal_type]
            rest == FMul(rsi_factor(insights, probe.rsi),
                         hour_factor(insights, probe.hour))
        IN sig_perf.wins + sig_perf.losses = 5 =>
             /\ 10 * sig_perf.wins < 4 * 5 =>
                  probe.learn_confidence = FMul(Frac(7, 10), rest)
             /\ 10 * sig_perf.wins > 6 * 5 =>
                  probe.learn_confidence = FMul(Frac(12, 10), rest)

\* C21: an hour among the top-3 hours gets the factor 1.2 from
\* should_take_trade; the factor 0.7 goes only to hours among the bottom-2
\* that are not among the top-3.
C21_BestHourGetsRaisingFactor ==
    probe.op = "should_take_trade" =>
        LET rest == FMul(signal_factor(insights, probe.signal_type),
                         rsi_factor(insights, probe.rsi))
        IN /\ InSeq(probe.hour, insights.time_analysis.best_hours) =>
                probe.learn_confidence = FMul(rest, Frac(12, 10))
           /\ probe.learn_confidence = FMul(rest, Frac(7, 10)) =>
                /\ InSeq(probe.hour, insights.time_analysis.worst_hours)
                /\ ~InSeq(probe.hour, insights.time_analysis.best_hours)

(* -------------------------- signal generation ------------------------- *)
\* A dataframe is its length and the columns get_optimized_signal reads from
\* its last two rows; prices are in tenths of a rupee, MACD in hundredths.

too_short_20(df) == df.bars < 20
\* len(df) < 30
too_short(df) == df.bars < 30

mtf_bullish_not_neutral(mtf_trend) == mtf_trend # "NEUTRAL"
mtf_bullish(mtf_trend) == mtf_trend \in {"STRONG_BULLISH", "BULLISH"}

\* the conditions checked on the latest bar
Conditions(df, mtf_trend, version) ==
    LET rsi_ok == df.rsi < RSI_OVERBOUGHT
    IN [sma_crossover_buy |-> df.sma_5_prev < df.sma_20_prev
                              /\ df.sma_5_now > df.sma_20_now,
        sma_crossover_sell |-> df.sma_5_prev > df.sma_20_prev
                               /\ df.sma_5_now < df.sma_20_now,
        rsi |-> df.rsi,
        rsi_oversold |-> df.rsi < RSI_OVERSOLD,
        rsi_ok |-> rsi_ok,
        macd_bullish |-> df.macd > df.macd_signal,
        macd_bearish |-> df.macd < df.macd_signal,
        \* abs(macd - macd_signal) < 0.1
        macd_close |-> Abs(df.macd - df.macd_signal) < 10,
        volume_ok |-> df.volume > df.volume_avg * VOLUME_MULTIPLIER,
        \* close <= bb_lower * 1.02
        near_bb_lower |-> 100 * df.close <= 102 * df.bb_lower,
        already_uptrend |-> df.sma_5_now > df.sma_20_now,
        price_above_sma20 |-> df.close > df.sma_20_now,
        rsi_pullback |-> df.rsi < 50,
        rsi_pullback_strong |-> df.rsi < 40,
        mtf_bullish |-> mtf_bullish(mtf_trend),
        mtf_strong_bullish |-> mtf_trend = "STRONG_BULLISH",
        mtf_neutral |-> mtf_trend = "NEUTRAL",
        mtf_bearish |-> mtf_trend = "BEARISH",
        rsi_ok_strong_bullish |->
            IF version = "V2" THEN df.rsi < RSI_OVERBOUGHT_V2_STRONG_BULLISH
            ELSE rsi_ok,
        rsi_ok_bullish |->
            IF version = "V2" THEN df.rsi < RSI_OVERBOUGHT_V2_BULLISH
            ELSE rsi_ok]

\* a return of get_optimized_signal: the signal, the rule that returned it,
\* the length of the reason list, and whether rows of df were read
Return(signal, rule, reasons) ==
    [signal |-> signal, rule |-> rule, reasons |-> reasons, read |-> TRUE]
NoReturn == Return("", "none", 0)

\* the TEST MODE block
test_entry(c) ==
    IF c.mtf_bullish /\ c.rsi_oversold
    THEN Return("STRONG_BUY", "test oversold", 4)
    ELSE IF c.mtf_strong_bullish /\ c.rsi < 50
    THEN Return("BUY", "test lenient", 4)
    ELSE NoReturn

\* the V1 block
v1_entry(c) ==
    IF ~c.mtf_bullish THEN NoReturn
    ELSE IF c.sma_crossover_buy /\ c.rsi_oversold /\ c.macd_bullish
            /\ c.volume_ok
    THEN Return("STRONG_BUY", "crossover oversold", 5)
    ELSE IF c.sma_crossover_buy /\ c.rsi_ok /\ c.macd_bullish
    THEN Return("BUY", "crossover", 4)
    ELSE IF c.near_bb_lower /\ c.rsi_oversold /\ c.macd_bullish
    THEN Return("BUY", "bounce", 4)
    ELSE IF c.already_uptrend /\ c.price_above_sma20 /\ c.rsi_pullback_strong
            /\ c.macd_bullish
    THEN Return("STRONG_BUY", "momentum strong", 5)
    ELSE IF c.already_uptrend /\ c.price_above_sma20 /\ c.rsi_pullback
            /\ c.macd_bullish
    THEN Return("BUY", "momentum", 5)
    ELSE NoReturn

\* V2 rule 1: STRONG_BULLISH trend
v2_strong_bullish_entry(c) ==
    IF ~c.mtf_strong_bullish THEN NoReturn
    ELSE IF ~c.already_uptrend /\ c.rsi < 30 /\ c.price_above_sma20
            /\ (c.macd_bullish \/ c.volume_ok)
    THEN Return("STRONG_BUY", "reversal", 5)
    ELSE IF c.sma_crossover_buy /\ c.rsi_oversold /\ c.macd_bullish
            /\ c.volume_ok
    THEN Return("STRONG_BUY", "crossover oversold", 5)
    ELSE IF c.sma_crossover_buy /\ c.rsi_ok_strong_bullish /\ c.macd_bullish
    THEN Return("BUY", "crossover", 4)
    ELSE IF c.near_bb_lower /\ c.rsi_oversold /\ c.macd_bullish
    THEN Return("BUY", "bounce", 4)
    ELSE IF c.rsi < 30 /\ c.price_above_sma20 /\ c.volume_ok /\ c.macd_bullish
    THEN Return("STRONG_BUY", "oversold", 5)
    ELSE IF c.rsi < 30 /\ c.price_above_sma20 /\ c.volume_ok
            /\ (~c.macd_bearish \/ c.macd_close)
    THEN Return("BUY", "oversold macd neutral", 5)
    ELSE IF c.already_uptrend /\ c.price_above_sma20 /\ c.rsi_pullback_strong
            /\ c.macd_bullish
    THEN Return("STRONG_BUY", "momentum strong", 4)
    ELSE IF c.already_uptrend /\ c.price_above_sma20 /\ c.rsi_pullback_strong
            /\ c.rsi < 35
    THEN Return("BUY", "momentum very oversold", 4)
    ELSE IF c.already_uptrend /\ c.price_above_sma20 /\ c.rsi_pullback
            /\ c.macd_bullish
    THEN Return("BUY", "momentum", 4)
    ELSE NoReturn

\* V2 rule 2: STRONG_BULLISH or BULLISH trend
v2_bullish_entry(c) ==
    IF ~c.mtf_bullish THEN NoReturn
    ELSE IF ~c.already_uptrend /\ c.rsi < 30 /\ c.price_above_sma20
            /\ c.volume_ok
    THEN (IF c.macd_bullish THEN Return("STRONG_BUY", "reversal", 6)
          ELSE Return("BUY", "reversal", 5))
    ELSE IF c.sma_crossover_buy /\ c.rsi_oversold /\ c.macd_bullish
            /\ c.volume_ok
    THEN Return("STRONG_BUY", "crossover oversold", 5)
    ELSE IF c.sma_crossover_buy /\ c.rsi_ok_bullish /\ c.macd_bullish
    THEN Return("BUY", "crossover", 4)
    ELSE IF c.rsi < 30 /\ c.price_above_sma20 /\ c.volume_ok
    THEN Return("BUY", "oversold", 5)
    ELSE IF c.already_uptrend /\ c.price_above_sma20 /\ c.rsi_pullback_strong
            /\ c.macd_bullish
    THEN Return("STRONG_BUY", "momentum strong", 4)
    ELSE IF c.already_uptrend /\ c.price_above_sma20 /\ c.rsi_pullback
            /\ c.macd_bullish
    THEN Return("BUY", "momentum", 4)
    ELSE NoReturn

\* V2 rule 3: NEUTRAL trend
v2_neutral_entry(c) ==
    IF ~c.mtf_neutral THEN NoReturn
    ELSE IF c.sma_crossover_buy /\ c.rsi_oversold /\ c.macd_bullish
            /\ c.volume_ok
    THEN Return("BUY", "crossover oversold", 5)
    ELSE IF c.near_bb_lower /\ c.rsi_oversold /\ c.macd_bullish
    THEN Return("BUY", "bounce", 4)
    ELSE IF c.already_uptrend /\ c.price_above_sma20 /\ c.rsi_oversold
            /\ c.macd_bullish
    THEN Return("BUY", "momentum", 4)
    ELSE NoReturn

\* the first of the returns that is not NoReturn
FirstReturn(returns) ==
    LET taken == {i \in 1..Len(returns) : returns[i] # NoReturn}
    IN IF taken = {} THEN NoReturn
       ELSE returns[CHOOSE i \in taken : \A j \in taken : i <= j]

\* the V2 block
v2_entry(c) ==
    FirstReturn(<<v2_strong_bullish_entry(c), v2_bullish_entry(c),
                  v2_neutral_entry(c)>>)

\* the SELL conditions
sell_rule(c) ==
    IF c.sma_crossover_sell /\ c.macd_bearish
    THEN Return("SELL", "crossover down", 2)
    ELSE IF c.mtf_bearish /\ c.macd_bearish
    THEN Return("SELL", "trend bearish", 2)
    ELSE NoReturn

Count(condition) == IF condition THEN 1 ELSE 0

\* the HOLD return and the length of hold_reasons
hold(c, version) ==
    LET n == IF version = "V1"
             THEN Count(~c.mtf_bullish) + Count(~c.sma_crossover_buy)
                  + Count(c.rsi > RSI_OVERBOUGHT) + Count(~c.macd_bullish)
             ELSE IF version = "V2"
             THEN Count(\/ c.mtf_bearish
                        \/ c.mtf_neutral /\ ~c.rsi_oversold
                        \/ c.mtf_strong_bullish
                           /\ c.rsi > RSI_OVERBOUGHT_V2_STRONG_BULLISH
                        \/ c.mtf_bullish /\ c.rsi > RSI_OVERBOUGHT_V2_BULLISH)
                  + Count(~c.sma_crossover_buy) + Count(~c.macd_bullish)
             ELSE 0
    IN Return("HOLD", "hold", IF n > 0 THEN n ELSE 1)

get_optimized_signal(df, mtf_trend, version, test_mode) ==
    IF too_short(df)
    THEN [signal |-> "WAIT", rule |-> "not enough data", reasons |-> 1,
          read |-> FALSE]
    ELSE LET c == Conditions(df, mtf_trend, version)
         IN FirstReturn(<<IF test_mode THEN test_entry(c) ELSE NoReturn,
                          IF version = "V1" THEN v1_entry(c)
                          ELSE IF version = "V2" THEN v2_entry(c)
                          ELSE NoReturn,
                          sell_rule(c),
                          hold(c, version)>>)

\* lengths of the 5-minute series
Bars == {1, 29, 30}
MtfTrends == {"STRONG_BULLISH", "BULLISH", "NEUTRAL", "BEARISH"}
Versions == {"V1", "V2"}
\* (SMA_5, SMA_20) of a bar: below, equal, above
SmaPairs == {<<990, 1000>>, <<1000, 1000>>, <<1010, 1000>>}
Rsis == {25, 32, 38, 45, 60, 72, 78, 85}
Macds == {-100, -5, 0, 100}
Volumes == {900, 1100}
Closes == {980, 1005}
BbLowers == {900, 990}

Frames ==
    {[bars |-> bars, sma_5_prev |-> prev[1], sma_20_prev |-> prev[2],
      sma_5_now |-> now[1], sma_20_now |-> now[2], rsi |-> rsi,
      macd |-> macd, macd_signal |-> 0, volume |-> volume,
      volume_avg |-> 1000, close |-> close, bb_lower |-> bb_lower] :
     bars \in Bars, prev \in SmaPairs, now \in SmaPairs, rsi \in Rsis,
     macd \in Macds, volume \in Volumes, close \in Closes,
     bb_lower \in BbLowers}

\* a flat symbol, its dataframe with indicators applied, and its trend label
SignalInit ==
    /\ positions = <<>>
    /\ pc = "signal"
    /\ idx = 1
    /\ TEST_MODE \in BOOLEAN
    /\ last = NoStep
    /\ trade_file = <<>>
    /\ insights = load_insights
    /\ \E df \in Frames, mtf_trend \in MtfTrends, version \in Versions :
         probe = [NoProbe EXCEPT !.op = "signal_input",
                     !.args = [df |-> df, mtf_trend |-> mtf_trend,
                               version |-> version]]
    /\ ledger = NoLedger
    /\ account = NoAccount

\* signal, indicators, reasons = get_optimized_signal(df, mtf_trend), and the
\* test that sends a flat symbol into the entry logic
GetOptimizedSignal ==
    /\ pc = "signal"
    /\ probe.op = "signal_input"
    /\ LET returned == get_optimized_signal(probe.args.df, probe.args.mtf_trend,
                                            probe.args.version, TEST_MODE)
       IN probe' = [probe EXCEPT !.op = "signal",
                       !.result = returned @@
                          [entry |-> returned.signal \in {"BUY", "STRONG_BUY"}]]
    /\ UNCHANGED <<loop, account, trade_file, insights, ledger>>

SignalNext == GetOptimizedSignal

SignalSpec == SignalInit /\ [][SignalNext]_vars

\* a call of get_optimized_signal has returned
Signalled == probe.op = "signal"
\* the conditions of that call
Checked == Conditions(probe.args.df, probe.args.mtf_trend, probe.args.version)

\* C22: with at least 30 bars, SMA crossover-down and MACD bearish on the
\* latest bar make get_optimized_signal return SELL, for every trend label
\* and under V1 and V2.
C22_CrossoverDownBearishIsSell ==
    Signalled /\ ~TEST_MODE /\ ~too_short(probe.args.df)
      /\ Checked.sma_crossover_sell /\ Checked.macd_bearish
    => probe.result.signal = "SELL"

\* C23: under V1 with test mode off, STRONG_BUY is returned only on a bullish
\* trend with crossover-up, RSI oversold, MACD bullish and volume confirmed,
\* and BUY only with crossover-up, RSI not overbought and MACD bullish or with
\* price near the lower band, RSI oversold and MACD bullish.
C23_V1EntriesFollowThreeRules ==
    Signalled /\ ~TEST_MODE /\ probe.args.version = "V1" =>
        /\ probe.result.signal = "STRONG_BUY" =>
             /\ Checked.mtf_bullish /\ Checked.sma_crossover_buy
             /\ Checked.rsi_oversold /\ Checked.macd_bullish
             /\ Checked.volume_ok
        /\ probe.result.signal = "BUY" =>
             \/ Checked.sma_crossover_buy /\ Checked.rsi_ok
                /\ Checked.macd_bullish
             \/ Checked.near_bb_lower /\ Checked.rsi_oversold
                /\ Checked.macd_bullish

\* C24: no BUY or STRONG_BUY on a BEARISH trend under either policy; under V2
\* an entry signal on a NEUTRAL trend only with RSI below the oversold
\* threshold; under V1 none on a NEUTRAL trend.
C24_TrendGatesEntries ==
    Signalled /\ probe.result.entry =>
        /\ probe.args.mtf_trend # "BEARISH"
        /\ probe.args.mtf_trend = "NEUTRAL" =>
             /\ probe.args.version = "V2"
             /\ probe.args.df.rsi < RSI_OVERSOLD

C24_Witness ==
    /\ Signalled /\ probe.result.signal = "BUY"
    /\ probe.args.mtf_trend = "NEUTRAL" /\ probe.args.version = "V2"

\* C25: a series of fewer than 30 bars gets WAIT with a non-empty reason list
\* before any row is read, and WAIT does not send the symbol into the entry
\* logic.
C25_ShortSeriesWaits ==
    Signalled /\ probe.args.df.bars < 30 =>
        /\ probe.result.signal = "WAIT"
        /\ probe.result.reasons >= 1
        /\ ~probe.result.read
        /\ ~probe.result.entry

C25_Witness ==
    Signalled /\ probe.args.df.bars = 29 /\ probe.result.signal = "WAIT"

(* ------------------------ multi-timeframe trend ----------------------- *)
\* A rolling value is <<v>>, or NaN inside the warm-up region of its window;
\* every comparison with NaN is false.
NaN == <<>>
Gt(a, b) == a # NaN /\ b # NaN /\ a[1] > b[1]
Lt(a, b) == a # NaN /\ b # NaN /\ a[1] < b[1]

\* df[column] = df["Close"].rolling(window).mean() on the latest bar
Rolling(bars, window, value) == IF bars >= window THEN <<value>> ELSE NaN

\* what yf.download does on one attempt
Outcomes == {"data", "empty", "exception"}

\* the retry loop `for attempt in range(3)` from attempt (1..3) on: the
\* frame it leaves, the attempts made, and whether the function returned
\* NEUTRAL from inside the loop
RECURSIVE Download(_, _)
Download(run, attempt) ==
    IF run[attempt] = "data"
    THEN [df |-> "data", attempts |-> attempt, returned |-> FALSE]
    ELSE IF attempt < 3 THEN Download(run, attempt + 1)
    ELSE IF run[attempt] = "exception"
    THEN [df |-> "none", attempts |-> attempt, returned |-> TRUE]
    ELSE [df |-> "empty", attempts |-> attempt, returned |-> FALSE]

\* the result of a trend function: label, download attempts, whether an
\* exception left the function, whether SMA_50 was compared
Trend(label, attempts, sma_50_compared) ==
    [trend |-> label, attempts |-> attempts, raised |-> FALSE,
     sma_50_compared |-> sma_50_compared]
TrendRaised(attempts) ==
    [trend |-> "", attempts |-> attempts, raised |-> TRUE,
     sma_50_compared |-> FALSE]

\* `except Exception: return "NEUTRAL", {}` around the whole function body
Uncaught(outcome) == outcome
Caught(outcome) ==
    IF outcome.raised THEN Trend("NEUTRAL", outcome.attempts, FALSE)
    ELSE outcome

\* the body of get_daily_trend; raw is the downloaded daily series
daily_trend_body(run, raw) ==
    LET fetched == Download(run, 1)
        sma_20 == Rolling(raw.bars, 20, raw.sma_20)
        sma_50 == Rolling(raw.bars, 50, raw.sma_50)
        close == <<raw.close>>
        macd == <<raw.macd>>
        macd_signal == <<raw.macd_signal>>
        \* `sma_20 > sma_50` or `sma_20 < sma_50` is evaluated
        compared == Gt(close, sma_20) \/ Lt(close, sma_20)
    IN IF fetched.returned \/ fetched.df # "data" \/ raw.bars < 20
       THEN Trend("NEUTRAL", fetched.attempts, FALSE)
       ELSE IF raw.broken THEN TrendRaised(fetched.attempts)
       ELSE IF Gt(close, sma_20) /\ Gt(sma_20, sma_50) /\ Gt(macd, macd_signal)
       THEN Trend("BULLISH", fetched.attempts, compared)
       ELSE IF Lt(close, sma_20) /\ Lt(sma_20, sma_50) /\ Lt(macd, macd_signal)
       THEN Trend("BEARISH", fetched.attempts, compared)
       ELSE Trend("NEUTRAL", fetched.attempts, compared)

get_daily_trend(run, raw) == Caught(daily_trend_body(run, raw))

\* the body of get_hourly_trend; raw is the downloaded hourly series
hourly_trend_body(run, raw) ==
    LET fetched == Download(run, 1)
    IN IF fetched.returned \/ fetched.df # "data" \/ raw.bars < 20
       THEN Trend("NEUTRAL", fetched.attempts, FALSE)
       ELSE IF raw.broken THEN TrendRaised(fetched.attempts)
       ELSE IF raw.ema_9 > raw.ema_21 /\ raw.macd > raw.macd_signal
       THEN Trend("BULLISH", fetched.attempts, FALSE)
       ELSE IF raw.ema_9 < raw.ema_21 /\ raw.macd < raw.macd_signal
       THEN Trend("BEARISH", fetched.attempts, FALSE)
       ELSE Trend("NEUTRAL", fetched.attempts, FALSE)

get_hourly_trend(run, raw) == Caught(hourly_trend_body(run, raw))

\* the label of the two trends
combine_trends_daily_first(daily_trend, hourly_trend) ==
    IF daily_trend = "BULLISH" /\ hourly_trend = "BULLISH"
    THEN "STRONG_BULLISH"
    ELSE IF daily_trend = "BULLISH" THEN "BULLISH"
    ELSE IF daily_trend = "BEARISH" /\ hourly_trend = "BEARISH"
    THEN "BEARISH"
    ELSE "NEUTRAL"

combine_trends(daily_trend, hourly_trend) ==
    IF daily_trend = "BULLISH" /\ hourly_trend = "BULLISH"
    THEN "STRONG_BULLISH"
    ELSE IF daily_trend = "BULLISH" /\ hourly_trend = "NEUTRAL"
    THEN "BULLISH"
    ELSE IF daily_trend = "BEARISH" /\ hourly_trend = "BEARISH"
    THEN "BEARISH"
    ELSE "NEUTRAL"

get_multi_timeframe_signal(daily_run, daily_raw, hourly_run, hourly_raw) ==
    LET daily == get_daily_trend(daily_run, daily_raw)
        hourly == get_hourly_trend(hourly_run, hourly_raw)
    IN [daily |-> daily, hourly |-> hourly,
        raised |-> daily.raised \/ hourly.raised,
        label |-> IF daily.raised \/ hourly.raised THEN ""
                  ELSE combine_trends(daily.trend, hourly.trend)]

\* outcomes of the attempts of one download, up to the first with data
Runs ==
    {run \in UNION {[1..n -> Outcomes] : n \in 1..3} :
       /\ \A i \in 1..(Len(run) - 1) : run[i] # "data"
       /\ Len(run) = 3 \/ run[Len(run)] = "data"}

\* daily series: 60 days give about 41 bars
DailySeries ==
    {[bars |-> bars, close |-> close, sma_20 |-> 100, sma_50 |-> sma_50,
      macd |-> macd, macd_signal |-> 0, broken |-> broken] :
     bars \in {19, 41, 50}, close \in {95, 105}, sma_50 \in {90, 110},
     macd \in {-1, 1}, broken \in BOOLEAN}

\* hourly series
HourlySeries ==
    {[bars |-> bars, ema_9 |-> ema_9, ema_21 |-> 100, macd |-> macd,
      macd_signal |-> 0, broken |-> broken] :
     bars \in {19, 35}, ema_9 \in {95, 105}, macd \in {-1, 1},
     broken \in BOOLEAN}

TrendInit ==
    /\ positions = <<>>
    /\ pc = "trend"
    /\ idx = 1
    /\ TEST_MODE = FALSE
    /\ last = NoStep
    /\ trade_file = <<>>
    /\ insights = load_insights
    /\ \E daily_run \in Runs, daily_raw \in DailySeries,
          hourly_run \in Runs, hourly_raw \in HourlySeries :
         probe = [NoProbe EXCEPT !.op = "trend_input",
                     !.args = [daily_run |-> daily_run, daily_raw |-> daily_raw,
                               hourly_run |-> hourly_run,
                               hourly_raw |-> hourly_raw]]
    /\ ledger = NoLedger
    /\ account = NoAccount

\* mtf_trend, mtf_indicators = mtf.get_multi_timeframe_signal()
GetMultiTimeframeSignal ==
    /\ pc = "trend"
    /\ probe.op = "trend_input"
    /\ probe' = [probe EXCEPT !.op = "trend",
                    !.result = get_multi_timeframe_signal(
                                   probe.args.daily_run, probe.args.daily_raw,
                                   probe.args.hourly_run, probe.args.hourly_raw)]
    /\ UNCHANGED <<loop, account, trade_file, insights, ledger>>

TrendNext == GetMultiTimeframeSignal

TrendSpec == TrendInit /\ [][TrendNext]_vars

\* a call of get_multi_timeframe_signal has returned or raised
TrendDone == probe.op = "trend"

\* no attempt of the download gave data, or the data are too short
FetchFailed(run, raw) ==
    (\A i \in 1..Len(run) : run[i] # "data") \/ raw.bars < 20

\* C26: the multi-timeframe label is the fixed table of the daily and hourly
\* labels.
C26_LabelIsFixedTable ==
    TrendDone =>
        LET daily == probe.result.daily.trend
            hourly == probe.result.hourly.trend
        IN probe.result.label =
             CASE daily = "BULLISH" /\ hourly = "BULLISH" -> "STRONG_BULLISH"
               [] daily = "BULLISH" /\ hourly = "NEUTRAL" -> "BULLISH"
               [] daily = "BEARISH" /\ hourly = "BEARISH" -> "BEARISH"
               [] OTHER -> "NEUTRAL"

C26_Witness ==
    /\ TrendDone /\ probe.result.daily.trend = "BULLISH"
    /\ probe.result.hourly.trend = "BEARISH"
    /\ probe.result.label = "NEUTRAL"

\* C27: a failed fetch of a timeframe makes its label NEUTRAL, each timeframe
\* makes at most 3 download attempts, and get_multi_timeframe_signal raises
\* nothing.
C27_FetchFailureIsNeutral ==
    TrendDone =>
        /\ ~probe.result.raised
        /\ probe.result.daily.attempts <= 3
        /\ probe.result.hourly.attempts <= 3
        /\ FetchFailed(probe.args.daily_run, probe.args.daily_raw) =>
             probe.result.daily.trend = "NEUTRAL"
        /\ FetchFailed(probe.args.hourly_run, probe.args.hourly_raw) =>
             probe.result.hourly.trend = "NEUTRAL"

C27_Witness ==
    /\ TrendDone
    /\ probe.args.daily_run = <<"exception", "exception", "exception">>
    /\ probe.args.hourly_run = <<"empty", "empty", "empty">>
    /\ probe.result.daily.attempts = 3
    /\ probe.result.label = "NEUTRAL"

\* C28: the daily trend classifier compares the 50-bar SMA only when the
\* daily series has at least 50 bars.
C28_Sma50OnlyAfterWarmup ==
    TrendDone /\ probe.result.daily.sma_50_compared =>
        probe.args.daily_raw.bars >= 50

(* ------------------------------ place_order --------------------------- *)
\* The broker is a script of what its calls do, in the order place_order makes
\* them: orders[k] is the outcome of the k-th self.obj.placeOrder call and
\* logins[k] whether the k-th self.login() call succeeds.

\* placeOrder outcomes: an order id, None, an exception whose text holds
\* 'Invalid Token' or 'AG8001', an exception whose text only holds the word
\* 'token', any other exception (EDIS and cautionary-listing errors included)
OrderOutcomes == {"id", "none", "invalid_token", "token_word", "error"}
IsException(outcome) == outcome \in {"invalid_token", "token_word", "error"}

\* where place_order stands after its first lines: paper mode, token refresh
\* failed, symbol without token, or ready to submit
Entries == {"paper", "refresh_failed", "unknown_token", "ready"}

\* self.obj.response after placeOrder returned None
Responses ==
    {"absent", "other", "edis", "cautionary_price", "cautionary_noprice",
     "cautionary_fetch_error", "mismatch_alt", "mismatch_noalt", "token"}

\* how a stretch of place_order ends: a return with its value, an exception,
\* or control falling through (value "fall"), with the placeOrder and login
\* calls made so far
OrderReturn(value, submissions, relogins) ==
    [raised |-> FALSE, exc |-> "", value |-> value,
     submissions |-> submissions, relogins |-> relogins]
OrderRaise(exc, submissions, relogins) ==
    [raised |-> TRUE, exc |-> exc, value |-> "None",
     submissions |-> submissions, relogins |-> relogins]

\* `except Exception as order_error` around the first placeOrder
first_order_raised(env) ==
    LET order_error == env.orders[1]
    IN IF order_error \in {"invalid_token", "token_word"}
       THEN IF env.logins[1]
            THEN IF env.orders[2] = "id" THEN OrderReturn("id", 2, 1)
                 ELSE IF IsException(env.orders[2])
                 THEN OrderReturn("None", 2, 1)
                 ELSE OrderRaise(order_error, 2, 1)
            ELSE OrderRaise(order_error, 1, 1)
       ELSE OrderRaise(order_error, 1, 0)

\* the look at self.obj.response, inside `try: ... except: pass`
response_analysis(env) ==
    CASE env.response \in {"absent", "other", "mismatch_noalt"} ->
            OrderReturn("fall", 1, 0)
      [] env.response \in {"edis", "cautionary_noprice",
                           "cautionary_fetch_error"} ->
            OrderReturn("None", 1, 0)
      [] env.response = "cautionary_price" ->
            IF env.orders[2] = "id" THEN OrderReturn("id", 2, 0)
            ELSE OrderReturn("None", 2, 0)
      [] env.response = "mismatch_alt" ->
            IF env.orders[2] = "id" THEN OrderReturn("id", 2, 0)
            ELSE OrderReturn("fall", 2, 0)
      [] env.response = "token" ->
            IF env.logins[1]
            THEN IF env.orders[2] = "id" THEN OrderReturn("id", 2, 1)
                 ELSE OrderReturn("fall", 2, 1)
            ELSE OrderReturn("fall", 1, 1)

\* "Order returned None, attempting token refresh..."
refresh_and_retry(env, so_far) ==
    LET s == so_far.submissions
        l == so_far.relogins
    IN IF env.logins[l + 1]
       THEN IF env.orders[s + 1] = "id" THEN OrderReturn("id", s + 1, l + 1)
            ELSE IF IsException(env.orders[s + 1])
            THEN OrderRaise(env.orders[s + 1], s + 1, l + 1)
            ELSE OrderReturn("None", s + 1, l + 1)
       ELSE OrderReturn("None", s, l + 1)

\* the outer try body from the first placeOrder on
order_body(env) ==
    IF env.orders[1] = "id" THEN OrderReturn("id", 1, 0)
    ELSE IF IsException(env.orders[1]) THEN first_order_raised(env)
    ELSE LET analysed == response_analysis(env)
         IN IF analysed.value = "fall" THEN refresh_and_retry(env, analysed)
            ELSE analysed

\* the outer `except Exception as e`
order_failed_propagating(env, outcome) == outcome
order_failed(env, outcome) ==
    LET s == outcome.submissions
        l == outcome.relogins
    IN IF outcome.exc = "invalid_token"
       THEN IF env.logins[l + 1]
            THEN IF env.orders[s + 1] = "id"
                 THEN OrderReturn("id", s + 1, l + 1)
                 ELSE OrderReturn("None", s + 1, l + 1)
            ELSE OrderReturn("None", s, l + 1)
       ELSE OrderReturn("None", s, l)

place_order(env) ==
    CASE env.entry = "paper" -> OrderReturn("True", 0, 0)
      [] env.entry \in {"refresh_failed", "unknown_token"} ->
            OrderReturn("None", 0, 0)
      [] env.entry = "ready" ->
            LET outcome == order_body(env)
            IN IF outcome.raised THEN order_failed(env, outcome) ELSE outcome

Brokers ==
    {[entry |-> entry, response |-> response, orders |-> orders,
      logins |-> logins] :
     entry \in Entries, response \in Responses,
     orders \in [1..4 -> OrderOutcomes], logins \in [1..3 -> BOOLEAN]}

OrderInit ==
    /\ positions = <<>>
    /\ pc = "order"
    /\ idx = 1
    /\ TEST_MODE = FALSE
    /\ last = NoStep
    /\ trade_file = <<>>
    /\ insights = load_insights
    /\ \E env \in Brokers :
         probe = [NoProbe EXCEPT !.op = "order_input", !.args = env]
    /\ ledger = NoLedger
    /\ account = NoAccount

\* order_result = broker.place_order(symbol, quantity, side)
PlaceOrder ==
    /\ pc = "order"
    /\ probe.op = "order_input"
    /\ probe' = [probe EXCEPT !.op = "order", !.result = place_order(probe.args)]
    /\ UNCHANGED <<loop, account, trade_file, insights, ledger>>

OrderNext == PlaceOrder

OrderSpec == OrderInit /\ [][OrderNext]_vars

\* a place_order call has ended
Ordered == probe.op = "order"
\* one of the submissions the call made was accepted
Accepted ==
    \E k \in 1..probe.result.submissions : probe.args.orders[k] = "id"

\* C29: place_order raises nothing; it returns a truthy value only in paper
\* mode or when a submission was accepted, and a falsy value when the token
\* refresh failed or the symbol has no token.
C29_PlaceOrderNeverRaises ==
    Ordered =>
        /\ ~probe.result.raised
        /\ probe.result.value \in {"True", "id", "None"}
        /\ probe.result.value # "None" =>
             probe.args.entry = "paper" \/ Accepted
        /\ probe.args.entry \in {"refresh_failed", "unknown_token"} =>
             probe.result.value = "None"
        /\ (probe.args.entry = "ready" /\ ~Accepted) =>
             probe.result.value = "None"

C29_Witness ==
    /\ Ordered /\ probe.args.entry = "ready"
    /\ probe.args.orders[1] = "error"
    /\ probe.result.value = "None" /\ probe.result.submissions = 1

\* C30: one place_order call makes at most 2 order submissions and at most 1
\* re-login, and returns failure when the retry fails.
C30_OneReloginOneRetry ==
    Ordered =>
        /\ probe.result.submissions <= 2
        /\ probe.result.relogins <= 1

(* ====================================================================== *)
(* The trading day: market hours, the daily-loss pause and the realized   *)
(* PnL of main (src/src/core/script.py:492-991), with the configured      *)
(* symbols only and a broker account that holds nothing but the bot's     *)
(* positions.                                                             *)
(* ====================================================================== *)
\* Config.MAX_DAILY_LOSS_PCT, in percent
MAX_DAILY_LOSS_PCT == 10
\* Config.TRADE_ONLY_HIGH_LIQUIDITY switched on: the filter can hold a cycle
\* back; with it off the runs are those in which it never does
TRADE_ONLY_HIGH_LIQUIDITY == TRUE

\* entries and exit orders of one run
MaxDayEntries == 2
MaxDayExits == 2

\* prices at which a flat symbol trades: one unit costs more than half of
\* Config.CAPITAL, or more than all of it
DayLevels == {600, 1200}
\* price of a flat symbol in a cycle that orders nothing
FlatLevels == {600}
\* prices of a held symbol, in percent of its entry price
DayMoves == {80, 100, 108}
\* <<RSI, MACD above its signal line>> of an entry candidate: the first is
\* approved by both estimators, the second is refused by the classifier
DayReadings == {<<35, TRUE>>, <<45, FALSE>>}
\* the hour of the trading day
DayHour == 10

\* is_market_open(): the exchange session of the current date
NextPhase(phase) ==
    IF phase = "pre" THEN "open" ELSE IF phase = "open" THEN "post" ELSE "pre"

\* `daily_pnl <= -(Config.CAPITAL * Config.MAX_DAILY_LOSS_PCT)`
daily_loss_limit_reached(daily_pnl) ==
    daily_pnl * 100 <= -(CAPITAL * MAX_DAILY_LOSS_PCT)

\* sum of the pnl cells of the SELL rows of a trade log
RECURSIVE logged_pnl(_)
logged_pnl(rows) ==
    IF rows = <<>> THEN 0
    ELSE (IF Head(rows).action = "SELL" THEN Head(rows).pnl ELSE 0)
            + logged_pnl(Tail(rows))

\* bot-owned positions
BotOwned == {s \in DOMAIN positions : positions[s].bot_entered}

\* where the loop goes after the market-closed branch, were its `continue`
\* missing
after_closed_falls_through == "symbols"

\* `time.sleep(300); continue` of the market-closed branch
after_closed == "cycle"

\* the record the loop continues from after the iteration of SYMBOLS[i]
next_symbol(i) ==
    IF i < Len(SYMBOLS) THEN [pc |-> "symbols", idx |-> i + 1]
    ELSE [pc |-> "end", idx |-> 1]

\* an exception of the iteration reaching the handler of the while loop
raise_to_main_loop(i) == [pc |-> "end", idx |-> 1]

\* `except Exception as e:` inside the for loop: log, notify, next symbol
raise_in_symbol(i) == next_symbol(i)

DayInit ==
    /\ positions = <<>>
    /\ pc = "cycle"
    /\ idx = 1
    /\ TEST_MODE = FALSE
    /\ last = NoStep
    /\ trade_file = <<>>
    /\ insights = load_insights
    /\ probe = NoProbe
    /\ ledger = NoLedger
    /\ account = NoAccount

\* time passes: the session opens, closes, and the date changes overnight
DayTick ==
    /\ pc = "cycle"
    /\ ~account.ticked
    /\ account' = [account EXCEPT
            !.phase = NextPhase(@), !.ticked = TRUE,
            !.summary_today = IF account.phase = "post" THEN FALSE ELSE @]
    /\ UNCHANGED <<loop, trade_file, insights, probe, ledger>>

\* what a cycle knows when it starts
StartCycle == [NoCycle EXCEPT !.open_at_start = BotOwned]

\* market closed: the daily summary once per date if positions are held,
\* then sleep and `continue`
DayClosed ==
    /\ pc = "cycle"
    /\ account.phase # "open"
    /\ LET summary == positions # <<>> /\ ~account.summary_today
       IN account' = [account EXCEPT
            !.ticked = FALSE,
            !.summary_today = IF summary THEN TRUE ELSE @,
            !.daily_pnl = IF summary THEN 0 ELSE @,
            !.cycle = StartCycle]
    /\ pc' = after_closed
    /\ idx' = 1
    /\ last' = [NoStep EXCEPT !.op = "market_closed"]
    /\ UNCHANGED <<positions, TEST_MODE, trade_file, insights, probe, ledger>>

\* market open, daily loss limit reached: sleep an hour and `continue`
DayPaused ==
    /\ pc = "cycle"
    /\ account.phase = "open"
    /\ daily_loss_limit_reached(account.daily_pnl)
    /\ account' = [account EXCEPT !.ticked = FALSE,
            !.cycle = [StartCycle EXCEPT !.market_open = TRUE, !.paused = TRUE]]
    /\ last' = [NoStep EXCEPT !.op = "paused"]
    /\ UNCHANGED <<positions, pc, idx, TEST_MODE, trade_file, insights, probe,
                   ledger>>

\* market open, outside the high-liquidity window: sleep and `continue`
DayLiquidityWait ==
    /\ pc = "cycle"
    /\ account.phase = "open"
    /\ ~daily_loss_limit_reached(account.daily_pnl)
    /\ TRADE_ONLY_HIGH_LIQUIDITY
    /\ account' = [account EXCEPT !.ticked = FALSE,
            !.cycle = [StartCycle EXCEPT !.market_open = TRUE, !.waiting = TRUE]]
    /\ last' = [NoStep EXCEPT !.op = "liquidity_wait"]
    /\ UNCHANGED <<positions, pc, idx, TEST_MODE, trade_file, insights, probe,
                   ledger>>

\* market open and nothing holds the cycle back: on to the symbols
DayOpen ==
    /\ pc = "cycle"
    /\ account.phase = "open"
    /\ ~daily_loss_limit_reached(account.daily_pnl)
    /\ account' = [account EXCEPT !.ticked = FALSE,
            !.cycle = [StartCycle EXCEPT !.market_open = TRUE]]
    /\ pc' = "symbols"
    /\ idx' = 1
    /\ last' = [NoStep EXCEPT !.op = "market_open"]
    /\ UNCHANGED <<positions, TEST_MODE, trade_file, insights, probe, ledger>>

\* the cycle record after the iteration of a symbol
Visit(cycle, s) == [cycle EXCEPT !.visited = @ \cup {s}]

Goto(place) == pc' = place.pc /\ idx' = place.idx

\* fetch_live_data() or apply_all_indicators() raised, or no bars came back
DaySymbolRaised ==
    /\ pc = "symbols"
    /\ \E kind \in {"raised", "no_data"} :
         /\ last' = [NoStep EXCEPT !.op = kind, !.symbol = symbol]
         /\ account' = [account EXCEPT !.cycle =
                IF kind = "raised"
                THEN [Visit(@, symbol) EXCEPT !.raised = @ \cup {symbol}]
                ELSE Visit(@, symbol)]
         /\ Goto(IF kind = "raised" THEN raise_in_symbol(idx)
                 ELSE next_symbol(idx))
    /\ UNCHANGED <<positions, TEST_MODE, trade_file, insights, probe, ledger>>

\* flat, and the signal is no entry signal
DayFlat ==
    /\ pc = "symbols"
    /\ symbol \notin DOMAIN positions
    /\ \E current_price \in FlatLevels, signal \in {"SELL", "HOLD"} :
         last' = [NoStep EXCEPT !.op = "flat", !.symbol = symbol,
                     !.price = current_price, !.raw = signal,
                     !.signal = filter_signal(Get(symbol), signal)]
    /\ account' = [account EXCEPT !.cycle = Visit(@, symbol)]
    /\ Goto(next_symbol(idx))
    /\ UNCHANGED <<positions, TEST_MODE, trade_file, insights, probe, ledger>>

\* entry signal dropped by the sentiment filter or the resistance check
DayEntryFiltered ==
    /\ pc = "symbols"
    /\ symbol \notin DOMAIN positions
    /\ Cardinality(DOMAIN positions) < MAX_POSITIONS
    /\ ~TEST_MODE
    /\ \E current_price \in FlatLevels, signal \in {"BUY", "STRONG_BUY"} :
         last' = [NoStep EXCEPT !.op = "filtered", !.symbol = symbol,
                     !.price = current_price, !.raw = signal, !.signal = signal]
    /\ account' = [account EXCEPT !.cycle = Visit(@, symbol)]
    /\ Goto(next_symbol(idx))
    /\ UNCHANGED <<positions, TEST_MODE, trade_file, insights, probe, ledger>>

\* entry signal that reached the two estimators, the sizer and the broker
DayEntry ==
    /\ pc = "symbols"
    /\ symbol \notin DOMAIN positions
    /\ Cardinality(DOMAIN positions) < MAX_POSITIONS
    /\ account.entries < MaxDayEntries
    /\ \E current_price \in DayLevels, signal \in {"BUY", "STRONG_BUY"},
          reading \in DayReadings, order_result \in OrderResults :
         LET rsi == reading[1]
             macd_above_signal == reading[2]
             learn == should_take_trade(insights, signal, rsi, DayHour)
             ml == ml_should_take_trade(simple_predict(rsi, macd_above_signal))
             combined_confidence ==
                IF TEST_MODE THEN Frac(75, 100)
                ELSE FDiv(FAdd(learn.confidence, ml.confidence), Whole(2))
             sized == calculate_position_size(CAPITAL, current_price, symbol,
                                              combined_confidence)
             quantity == sized.value
             step == [NoStep EXCEPT !.op = "entry", !.symbol = symbol,
                         !.price = current_price, !.raw = signal,
                         !.signal = signal,
                         !.should_trade = learn.should_trade,
                         !.ml_take_trade = ml.take_trade]
             ordered == gate_passed(learn.should_trade, ml.take_trade)
                            /\ ~sized.raised /\ quantity > 0
             bought == ordered /\ order_result
         IN /\ ordered \/ ~order_result
            /\ last' = IF ordered
                       THEN [step EXCEPT !.order = "BUY", !.quantity = quantity,
                                         !.order_result = order_result]
                       ELSE step
            /\ positions' = IF bought
                            THEN Put(symbol, opened_position(quantity,
                                                             current_price))
                            ELSE positions
            /\ trade_file' = IF bought
                             THEN Append(trade_file, Row("BUY", symbol, signal,
                                            "", 0, rsi, DayHour))
                             ELSE trade_file
            /\ account' = [account EXCEPT
                    !.entries = IF ordered THEN @ + 1 ELSE @,
                    !.cycle = [Visit(@, symbol) EXCEPT
                        !.orders = IF ordered THEN @ + 1 ELSE @]]
    /\ Goto(next_symbol(idx))
    /\ UNCHANGED <<TEST_MODE, insights, probe, ledger>>

\* a position the bot opened: high-water mark, exit rules, realized PnL, the
\* SELL order, and the trade log and the learning engine if it went through
DayExit ==
    /\ pc = "symbols"
    /\ symbol \in DOMAIN positions
    /\ ~is_external(positions[symbol])
    /\ \E move \in DayMoves, signal \in HeldSignals, order_result \in OrderResults :
         LET current_price == (positions[symbol].buy_price * move) \div 100
             position == RaiseHighest(positions[symbol], current_price)
             reason == exit_reason(position, current_price, 0, signal)
             qty == exit_quantity(reason, position.quantity)
             marked == MarkPartial(position, reason)
             pnl == (current_price - position.buy_price) * qty
             step == [NoStep EXCEPT !.op = "exit", !.symbol = symbol,
                         !.position = positions[symbol], !.price = current_price,
                         !.raw = signal, !.signal = signal,
                         !.exit_reason = reason,
                         !.effective_sl = effective_sl(position.buy_price,
                                              position.highest_price, 0)]
             sold == reason # "NONE" /\ order_result
             logged == IF sold
                       THEN Append(trade_file, Row("SELL", symbol, "", reason,
                                                   pnl, 35, DayHour))
                       ELSE trade_file
         IN /\ reason = "NONE" => ~order_result
            /\ reason # "NONE" => account.exits < MaxDayExits
            /\ last' = IF reason = "NONE" THEN step
                       ELSE [step EXCEPT !.order = "SELL", !.quantity = qty,
                                         !.order_result = order_result]
            /\ positions' =
                 IF ~sold THEN Put(symbol, marked)
                 ELSE IF qty < position.quantity
                 THEN Put(symbol, [marked EXCEPT !.quantity = @ - qty])
                 ELSE Remove(symbol)
            /\ trade_file' = logged
            /\ insights' = IF sold /\ qty = position.quantity
                           THEN analyze_trades(insights, logged)
                           ELSE insights
            /\ account' = [account EXCEPT
                    !.total_pnl = IF reason # "NONE" THEN @ + pnl ELSE @,
                    !.daily_pnl = IF reason # "NONE" THEN @ + pnl ELSE @,
                    !.exits = IF reason # "NONE" THEN @ + 1 ELSE @,
                    !.cycle = [Visit(@, symbol) EXCEPT
                        !.evaluated = @ \cup {symbol},
                        !.orders = IF reason # "NONE" THEN @ + 1 ELSE @]]
    /\ Goto(next_symbol(idx))
    /\ UNCHANGED <<TEST_MODE, probe, ledger>>

\* the end of a cycle over the symbols: the status notification, the
\* summary line, and the sleep of CHECK_INTERVAL_SECONDS
DayCycleEnd ==
    /\ pc = "end"
    /\ pc' = "cycle"
    /\ last' = [NoStep EXCEPT !.op = "cycle_end"]
    /\ account' = [account EXCEPT !.cycle = NoCycle]
    /\ UNCHANGED <<positions, idx, TEST_MODE, trade_file, insights, probe,
                   ledger>>

DayNext ==
    \/ DayTick
    \/ DayClosed
    \/ DayPaused
    \/ DayLiquidityWait
    \/ DayOpen
    \/ DaySymbolRaised
    \/ DayFlat
    \/ DayEntryFiltered
    \/ DayEntry
    \/ DayExit
    \/ DayCycleEnd

DaySpec == DayInit /\ [][DayNext]_vars

(* ------------------------- properties of the day ---------------------- *)
\* a pass over the configured symbols has just finished
PassDone == pc = "end"

\* C31: an exception raised while a symbol is processed is caught inside that
\* symbol's iteration: the pass goes on with the next configured symbol, so
\* every pass that ends has visited every configured symbol, and the loop
\* goes on to its next cycle.
C31_RaiseKeepsThePassGoing ==
    /\ PassDone => account.cycle.visited = tracked_symbols
    /\ (last.op = "raised" /\ last.symbol # SYMBOLS[Len(SYMBOLS)])
          => (pc = "symbols" /\ SYMBOLS[idx - 1] = last.symbol)
    /\ (last.op = "raised" /\ last.symbol = SYMBOLS[Len(SYMBOLS)]) => PassDone

\* the first symbol raised and the pass went on to handle the second one
C31_Witness ==
    /\ PassDone
    /\ SYMBOLS[1] \in account.cycle.raised
    /\ SYMBOLS[2] \in account.cycle.visited \ account.cycle.raised

\* C33: in a cycle that finds the market closed no symbol is processed and
\* no order is placed; the loop sleeps and starts the next cycle with the
\* market check.
C33_ClosedMarketIsIdle ==
    /\ ~account.cycle.market_open
          => /\ account.cycle.visited = {}
             /\ account.cycle.orders = 0
             /\ pc = "cycle"
    /\ last.op = "market_closed" => last.order = "NONE"

\* a cycle found the market closed while a position was held
C33_Witness ==
    /\ last.op = "market_closed"
    /\ positions # <<>>
    /\ account.phase = "post"

\* a cycle that found the market open is over: the pass has finished, or the
\* cycle was cut short by a `continue`
OpenCycleOver ==
    /\ account.cycle.market_open
    /\ pc \in {"cycle", "end"}

\* C34: in every cycle with the market open, each bot-owned position open at
\* the start of the cycle, and for which bars came back, has its high-water
\* mark updated and its exit rules evaluated, also when the daily-loss limit
\* has been reached or the liquidity filter holds the cycle back.
C34_EveryOpenCycleEvaluatesExits ==
    OpenCycleOver =>
        \A s \in account.cycle.open_at_start :
            s \in account.cycle.evaluated
               \/ s \in account.cycle.visited \ account.cycle.evaluated

\* the steps of the loop, as opposed to the passing of time
DayLoop ==
    \/ DayClosed
    \/ DayPaused
    \/ DayLiquidityWait
    \/ DayOpen
    \/ DaySymbolRaised
    \/ DayFlat
    \/ DayEntryFiltered
    \/ DayEntry
    \/ DayExit
    \/ DayCycleEnd

\* every sleep of the loop ends (the longest is an hour) and the session
\* opens and closes every day: the loop keeps taking steps, and the clock
\* moves on whenever a cycle has read it
DayFairSpec ==
    /\ DayInit
    /\ [][DayNext]_vars
    /\ WF_vars(DayLoop)
    /\ SF_vars(DayTick)

\* the cycle just started was cut short by the daily-loss limit
Paused == last.op = "paused"

\* the daily counter is back at 0, under the limit
PauseLifted ==
    /\ account.daily_pnl = 0
    /\ ~daily_loss_limit_reached(account.daily_pnl)

\* C35: once the daily-loss limit has paused the bot, daily_pnl is reset at a
\* later market close and the pause ends, whether or not a position is open
\* at that close.
C35_PauseEndsAtClose == Paused ~> PauseLifted

\* C36: total_pnl and daily_pnl change only in a step that executed a SELL and
\* logged it; total_pnl is at every moment the sum of the pnl of the SELL
\* rows written during the run, and a failed exit order adds nothing.
C36_TotalPnlIsLoggedPnl ==
    account.total_pnl = logged_pnl(trade_file)

\* the money the open bot positions cost at entry: quantity x entry price
RECURSIVE entry_cost(_, _)
entry_cost(held, symbols) ==
    IF symbols = {} THEN 0
    ELSE LET s == CHOOSE x \in symbols : TRUE
         IN held[s].quantity * held[s].buy_price
               + entry_cost(held, symbols \ {s})

\* C39: the total entry cost of the bot's open positions never exceeds the
\* configured capital (each entry being sized from the capital still
\* available).
C39_EntryCostWithinCapital ==
    entry_cost(positions, BotOwned) <= CAPITAL

\* C37: a partial-target exit always leaves the position open, with at least
\* one unit remaining, whatever quantity (>= 1) was held.
C37_PartialTargetKeepsPosition ==
    (/\ last.op = "exit"
     /\ last.exit_reason = "PARTIAL TARGET (50%)"
     /\ last.position.quantity >= 1
     /\ last.order_result)
        => /\ last.symbol \in DOMAIN positions
           /\ positions[last.symbol].quantity >= 1

(* ---------------- the stop levels under any configuration ------------- *)
\* Config.SL_PCT and Config.TRAILING_SL_PCT as an operator may set them, in
\* percent
StopPcts == {3, 5}
TrailingPcts == {3, 5}
\* the prices of one evaluation: the entry, the high-water mark stored in the
\* position (never below the entry) and the current price
StopEntries == {100}
StopHighs == {100, 104, 110}
StopPrices == {94, 95, 96, 97, 98, 99, 100, 104, 106, 110}

\* the stop part of the exit logic with the two percentages as arguments:
\* the high-water mark is raised first, then the three levels (times 100)
\* and the label of a stop exit ("NONE" when the price is above the stop)
stop_exit(sl_pct, trailing_sl_pct, position, current_price, atr_value) ==
    LET buy_price == position.buy_price
        highest_price == Max(position.highest_price, current_price)
        fixed == buy_price * (100 - sl_pct)
        trailing == highest_price * (100 - trailing_sl_pct)
        pct_sl == Max(fixed, trailing)
        atr_trailing_sl == (highest_price - atr_value * 2) * 100
        effective == IF atr_value > 0 THEN Max(pct_sl, atr_trailing_sl)
                     ELSE pct_sl
    IN [fixed_sl |-> fixed, trailing_sl |-> trailing,
        atr_trailing_sl |-> IF atr_value > 0 THEN atr_trailing_sl ELSE 0,
        effective_sl |-> effective,
        exit_reason |->
            IF current_price * 100 <= effective
            THEN IF trailing > fixed THEN "TRAILING SL" ELSE "STOP LOSS"
            ELSE "NONE"]

StopInputs ==
    {[sl_pct |-> sl_pct, trailing_sl_pct |-> trailing_sl_pct,
      position |-> [quantity |-> 1, buy_price |-> buy_price,
                    highest_price |-> highest_price, bot_entered |-> TRUE,
                    partial_exit_done |-> FALSE],
      current_price |-> current_price, atr_value |-> atr_value] :
     sl_pct \in StopPcts, trailing_sl_pct \in TrailingPcts,
     buy_price \in StopEntries, highest_price \in StopHighs,
     current_price \in StopPrices, atr_value \in ATRs}

StopInit ==
    /\ positions = <<>>
    /\ pc = "stop"
    /\ idx = 1
    /\ TEST_MODE = FALSE
    /\ last = NoStep
    /\ trade_file = <<>>
    /\ insights = load_insights
    /\ \E input \in StopInputs :
         probe = [NoProbe EXCEPT !.op = "stop_input", !.args = input]
    /\ ledger = NoLedger
    /\ account = NoAccount

\* one pass of the exit logic over a bot position, up to the stop test
EvaluateStop ==
    /\ pc = "stop"
    /\ probe.op = "stop_input"
    /\ probe' = [probe EXCEPT !.op = "stop",
                   !.result = stop_exit(probe.args.sl_pct,
                                        probe.args.trailing_sl_pct,
                                        probe.args.position,
                                        probe.args.current_price,
                                        probe.args.atr_value)]
    /\ UNCHANGED <<loop, account, trade_file, insights, ledger>>

StopNext == EvaluateStop

StopSpec == StopInit /\ [][StopNext]_vars

\* C38: whatever the stop percentage, the trailing percentage and the ATR,
\* an exit labelled "STOP LOSS" happens at a price at or below the fixed stop
\* entry x (1 - stop_pct): an exit forced by a tighter trailing or ATR stop
\* never carries that label.
C38_StopLossMeansFixedStop ==
    (probe.op = "stop" /\ probe.result.exit_reason = "STOP LOSS")
        => probe.args.current_price * 100 <= probe.result.fixed_sl

(* ------------- the periodic sync and the broker's rate limit ---------- *)
\* how one call of the broker API ends: data, the rate-limit exception
\* ("exceeding access rate"), or another exception
ApiOutcomes == {"ok", "rate", "error"}

\* the except clauses' test of the message for a rate-limit error
is_rate_limit(outcome) == outcome = "rate"

\* the symbols of the account during one sync: one configured, one not
SyncSymbols == {"GOLDBEES-EQ", "TATASTEEL-EQ"}

\* the broker account and the API during one sync, in live trading with a
\* valid token: the symbols held as intraday positions and as delivery
\* holdings, and how the first call and the retry of each endpoint end
SyncEnvs ==
    {[intraday |-> intraday, holdings |-> holdings,
      position_calls |-> position_calls, holding_calls |-> holding_calls] :
     intraday \in SUBSET SyncSymbols, holdings \in SUBSET SyncSymbols,
     position_calls \in [1..2 -> ApiOutcomes],
     holding_calls \in [1..2 -> ApiOutcomes]}

\* get_positions(): every exception is caught; a rate-limit error is retried
\* once after 30 s, and every failure returns the empty list
get_positions(env) ==
    LET first == env.position_calls[1]
        retry == env.position_calls[2]
    IN IF first = "ok" THEN [raised |-> "", data |-> env.intraday]
       ELSE IF is_rate_limit(first) /\ retry = "ok"
       THEN [raised |-> "", data |-> env.intraday]
       ELSE [raised |-> "", data |-> {}]

\* sync_all_positions(): None when sync_failed, else the normalized records
\* keyed by symbol
sync_all_positions(env) ==
    LET fetched == get_positions(env)
        failed_positions == is_rate_limit(fetched.raised)
        broker_positions == fetched.data
        first == env.holding_calls[1]
        retry == env.holding_calls[2]
        held ==
            IF first = "ok"
            THEN [sync_failed |-> failed_positions,
                  data |-> broker_positions \cup env.holdings]
            ELSE IF is_rate_limit(first)
            THEN IF retry = "ok" /\ env.holdings # {}
                 THEN [sync_failed |-> FALSE,
                       data |-> broker_positions \cup env.holdings]
                 ELSE [sync_failed |-> TRUE, data |-> broker_positions]
            ELSE [sync_failed |-> failed_positions, data |-> broker_positions]
    IN IF held.sync_failed
       THEN [none |-> TRUE, normalized |-> <<>>]
       ELSE [none |-> FALSE,
             normalized |-> [s \in held.data |->
                                normalize_broker_position(1, 100, 100)]]

\* what the loop tracks when the sync starts
TrackedPositions ==
    {[s \in held |->
        [quantity |-> 1, buy_price |-> 100, highest_price |-> 100,
         bot_entered |-> s \in bots, partial_exit_done |-> FALSE]] :
     held \in SUBSET SyncSymbols, bots \in SUBSET SyncSymbols}

SyncInit ==
    /\ positions \in TrackedPositions
    /\ pc = "sync"
    /\ idx = 1
    /\ TEST_MODE = FALSE
    /\ last = NoStep
    /\ trade_file = <<>>
    /\ insights = load_insights
    /\ \E env \in SyncEnvs :
         probe = [NoProbe EXCEPT !.op = "sync_input",
                    !.args = [env |-> env, tracked |-> DOMAIN positions]]
    /\ ledger = NoLedger
    /\ account = NoAccount

\* the sync block of a cycle: a None makes `.items()` raise and the handler
\* only logs; a dictionary refreshes, adopts and removes
PeriodicSync ==
    /\ pc = "sync"
    /\ probe.op = "sync_input"
    /\ LET returned == sync_all_positions(probe.args.env)
           broker_positions == returned.normalized
           broker_symbols == DOMAIN broker_positions
           kept == (DOMAIN positions \cup broker_symbols)
                      \ positions_to_remove(broker_symbols)
       IN /\ probe' = [probe EXCEPT !.op = "sync", !.result = returned]
          /\ positions' =
               IF returned.none THEN positions
               ELSE [s \in kept |->
                      IF s \in DOMAIN positions
                      THEN IF s \in broker_symbols
                           THEN SyncRefresh(positions[s], broker_positions[s])
                           ELSE positions[s]
                      ELSE Adopt(broker_positions[s])]
          /\ last' = [NoStep EXCEPT
                        !.op = IF returned.none THEN "sync_failed" ELSE "sync"]
    /\ pc' = "market"
    /\ UNCHANGED <<idx, TEST_MODE, account, trade_file, insights, ledger>>

SyncNext == PeriodicSync

SyncSpec == SyncInit /\ [][SyncNext]_vars

\* an endpoint whose fetch failed from rate limiting: the first call and the
\* retry both ended in the rate-limit error
RateLimited(calls) == is_rate_limit(calls[1]) /\ is_rate_limit(calls[2])

SyncRateLimited ==
    \/ RateLimited(probe.args.env.position_calls)
    \/ RateLimited(probe.args.env.holding_calls)

\* C40: when the positions fetch or the holdings fetch failed from rate
\* limiting, sync_all_positions returns None, and the sync removes no tracked
\* position that the broker account still holds.
C40_RateLimitedSyncRemovesNothing ==
    (probe.op = "sync" /\ SyncRateLimited)
        => /\ probe.result.none
           /\ \A s \in probe.args.tracked :
                s \in probe.args.env.intraday \cup probe.args.env.holdings
                   => s \in DOMAIN positions

====
